---- MODULE Spec2Model ----
(***************************************************************************)
(* A model of the query routing and retrieval pipeline of the chatbot      *)
(* server: the orchestrator do_execute_prompt (src/execute_prompt.py), its *)
(* preprocessing (context trimmer, spell corrector) and the progressive    *)
(* filter relaxation of the product engine (src/query_products.py).        *)
(*                                                                         *)
(* A Python str is a finite sequence of one-character strings.  The        *)
(* generation, embedding and index services are the environment: every     *)
(* call to one of them either raises (Fault) or returns a value drawn from *)
(* a small set.  Per-client template and configuration files are taken to  *)
(* exist (they are a deployment prerequisite).                             *)
(***************************************************************************)
EXTENDS Integers, Sequences, FiniteSets, TLC

VARIABLES run, run2, rel, app, srv

vars == <<run, run2, rel, app, srv>>

-----------------------------------------------------------------------------
(* Values *)

\* Python's None: a one-element tuple holding a token that is no character.
None == <<"None">>

\* An exception raised by a call (any subclass of Exception).
Fault == <<"Fault">>

\* `if x:` for x a str or None.
Truthy(x) == x # None /\ x # <<>>

Lowers == {"t", "h", "e", "r", "u"}
Uppers == {"T", "H", "E", "R", "U"}

\* str.isalpha() of one character
IsAlpha(c) == c \in Lowers \cup Uppers

\* str.isspace() of one character
IsSpace(c) == c \in {" ", "\n"}

ToLower(c) ==
    CASE c = "T" -> "t" [] c = "H" -> "h" [] c = "E" -> "e" [] c = "R" -> "r" [] c = "U" -> "u"
      [] OTHER -> c

ToUpper(c) ==
    CASE c = "t" -> "T" [] c = "h" -> "H" [] c = "e" -> "E" [] c = "r" -> "R" [] c = "u" -> "U"
      [] OTHER -> c

\* str.lower(), str.upper(), str.capitalize()
Lower(s) == [i \in 1..Len(s) |-> ToLower(s[i])]
Upper(s) == [i \in 1..Len(s) |-> ToUpper(s[i])]
Capitalize(s) == [i \in 1..Len(s) |-> IF i = 1 THEN ToUpper(s[i]) ELSE ToLower(s[i])]

\* str.isupper(): some cased character, and no lowercase one
IsUpperStr(s) ==
    /\ \E i \in 1..Len(s) : s[i] \in Uppers
    /\ \A i \in 1..Len(s) : s[i] \notin Lowers

\* str.islower(): some cased character, and no uppercase one
IsLowerStr(s) ==
    /\ \E i \in 1..Len(s) : s[i] \in Lowers
    /\ \A i \in 1..Len(s) : s[i] \notin Uppers

\* str.isalpha(): non-empty and every character alphabetic
IsAlphaStr(s) == s # <<>> /\ \A i \in 1..Len(s) : IsAlpha(s[i])

RECURSIVE LStrip(_)
LStrip(s) == IF s # <<>> /\ IsSpace(Head(s)) THEN LStrip(Tail(s)) ELSE s

RECURSIVE RStrip(_)
RStrip(s) ==
    IF s # <<>> /\ IsSpace(s[Len(s)]) THEN RStrip(SubSeq(s, 1, Len(s) - 1)) ELSE s

\* str.strip()
Strip(s) == RStrip(LStrip(s))

RECURSIVE Flatten(_)
\* "".join(parts)
Flatten(parts) == IF parts = <<>> THEN <<>> ELSE Head(parts) \o Flatten(Tail(parts))

RECURSIVE JoinLines(_)
\* "\n".join(lines)
JoinLines(lines) ==
    IF lines = <<>> THEN <<>>
    ELSE IF Len(lines) = 1 THEN lines[1]
    ELSE lines[1] \o <<"\n">> \o JoinLines(Tail(lines))

RECURSIVE SplitFrom(_, _, _, _)
SplitFrom(s, i, current, lines) ==
    IF i > Len(s)
    THEN IF current # <<>> THEN Append(lines, current) ELSE lines
    ELSE IF s[i] = "\n"
         THEN SplitFrom(s, i + 1, <<>>, Append(lines, current))
         ELSE SplitFrom(s, i + 1, Append(current, s[i]), lines)

\* str.splitlines(): a trailing line break opens no further line
SplitLines(s) == SplitFrom(s, 1, <<>>, <<>>)

RECURSIVE SelectLines(_)
\* [ln for ln in lines if ln.strip()]
SelectLines(lines) ==
    IF lines = <<>> THEN <<>>
    ELSE IF Strip(Head(lines)) # <<>>
         THEN <<Head(lines)>> \o SelectLines(Tail(lines))
         ELSE SelectLines(Tail(lines))

\* lines[-keep:]: with keep = 0 the slice lines[-0:] is the whole list
LastLines(lines, keep) ==
    IF keep = 0 \/ keep >= Len(lines) THEN lines
    ELSE SubSeq(lines, Len(lines) - keep + 1, Len(lines))

\* _trim_conversation_context(conversation_context, max_pairs)
trim_conversation_context(conversation_context, max_pairs) ==
    IF ~Truthy(conversation_context) THEN None
    ELSE LET lines == SelectLines(SplitLines(conversation_context))
         IN IF lines = <<>> THEN None
            ELSE JoinLines(LastLines(lines, 2 * max_pairs))

\* max_pairs=6 at the call in do_execute_prompt
MaxPairs == 6

-----------------------------------------------------------------------------
(* Spell corrector (src/spell_corrector.py) *)

\* self.dictionary, in the order the set is iterated; neither the
\* constructor nor from_english_dictionary keeps words with an apostrophe
\* (as "don't" in the English word list) out of it
Dictionary ==
    << <<"t", "h", "e">>, <<"t", "e", "e">>, <<"h", "'", "h">>, <<"t", "e", "e", "t", "h">> >>

InDictionary(w) == \E k \in 1..Len(Dictionary) : Dictionary[k] = w

RECURSIVE TokenizeFrom(_, _, _, _)
TokenizeFrom(text, i, current, tokens) ==
    IF i > Len(text)
    THEN IF current # <<>> THEN Append(tokens, current) ELSE tokens
    ELSE IF current = <<>> \/ IsAlpha(text[i]) = IsAlpha(current[1])
         THEN TokenizeFrom(text, i + 1, Append(current, text[i]), tokens)
         ELSE TokenizeFrom(text, i + 1, <<text[i]>>, Append(tokens, current))

\* SpellCorrector._tokenize
tokenize(text) == TokenizeFrom(text, 1, <<>>, <<>>)

Min2(x, y) == IF x <= y THEN x ELSE y

RECURSIVE LevRow(_, _, _, _, _)
\* the inner loop of _levenshtein: current_row for character ca
LevRow(ca, b, previous_row, current_row, j) ==
    IF j > Len(b) THEN current_row
    ELSE LET insert_cost == current_row[j] + 1
             delete_cost == previous_row[j + 1] + 1
             replace_cost == previous_row[j] + (IF ca # b[j] THEN 1 ELSE 0)
         IN LevRow(ca, b, previous_row,
                   Append(current_row, Min2(insert_cost, Min2(delete_cost, replace_cost))),
                   j + 1)

RECURSIVE LevRows(_, _, _, _)
LevRows(a, b, i, previous_row) ==
    IF i > Len(a) THEN previous_row
    ELSE LevRows(a, b, i + 1, LevRow(a[i], b, previous_row, <<i>>, 1))

\* SpellCorrector._levenshtein
levenshtein(a, b) ==
    IF a = b THEN 0
    ELSE IF a = <<>> THEN Len(b)
    ELSE IF b = <<>> THEN Len(a)
    ELSE LET short == IF Len(a) > Len(b) THEN b ELSE a
             long == IF Len(a) > Len(b) THEN a ELSE b
         IN LevRows(short, long, 1, [j \in 1..(Len(long) + 1) |-> j - 1])[Len(long) + 1]

Abs(x) == IF x < 0 THEN -x ELSE x

RECURSIVE BestFromFirst(_, _, _, _)
\* BestFrom stopping at the first word within distance 2
BestFromFirst(word, k, best_word, best_dist) ==
    IF k > Len(Dictionary) THEN best_word
    ELSE LET w == Dictionary[k]
         IN IF Abs(Len(w) - Len(word)) > 2
            THEN BestFromFirst(word, k + 1, best_word, best_dist)
            ELSE LET d == levenshtein(word, w)
                 IN IF d < best_dist THEN w
                    ELSE BestFromFirst(word, k + 1, best_word, best_dist)

RECURSIVE BestFrom(_, _, _, _)
BestFrom(word, k, best_word, best_dist) ==
    IF k > Len(Dictionary) THEN best_word
    ELSE LET w == Dictionary[k]
         IN IF Abs(Len(w) - Len(word)) > 2
            THEN BestFrom(word, k + 1, best_word, best_dist)
            ELSE LET d == levenshtein(word, w)
                 IN IF d < best_dist
                    THEN IF d = 1 THEN w ELSE BestFrom(word, k + 1, w, d)
                    ELSE BestFrom(word, k + 1, best_word, best_dist)

\* SpellCorrector._best_candidate: best_dist starts at 3
best_candidate(word) == BestFrom(word, 1, None, 3)

\* _apply_case without the capitalised pattern
apply_case_upper_or_lower(original, corrected_lower) ==
    IF IsUpperStr(original) THEN Upper(corrected_lower) ELSE corrected_lower

\* SpellCorrector._apply_case
apply_case(original, corrected_lower) ==
    IF IsUpperStr(original) THEN Upper(corrected_lower)
    ELSE IF original[1] \in Uppers /\ IsLowerStr(Tail(original))
         THEN Capitalize(corrected_lower)
         ELSE corrected_lower

\* SpellCorrector._correct_word_preserve_case
correct_word_preserve_case(word) ==
    LET lower == Lower(word)
    IN IF InDictionary(lower) THEN word
       ELSE LET candidate == best_candidate(lower)
            IN IF candidate = None THEN word ELSE apply_case(word, candidate)

\* SpellCorrector.fix_string
fix_string(text) ==
    LET tokens == tokenize(text)
    IN Flatten([k \in 1..Len(tokens) |->
                  IF IsAlphaStr(tokens[k])
                  THEN correct_word_preserve_case(tokens[k])
                  ELSE tokens[k]])

-----------------------------------------------------------------------------
(* The orchestrator: do_execute_prompt (src/execute_prompt.py) *)

\* A prompt is a sequence of segments: fixed text of the source or of a
\* template file (Lit), and interpolated values (Val).
Lit(name) == [lit |-> name]
Val(text) == [val |-> text]

NA == <<"N", "/", "A">>
PRODUCT == <<"P", "R", "O", "D", "U", "C", "T">>

RephraseInstruction ==
    Lit("User provided a question that broke the querying system. Instruct them to rephrase it. Answer it based on the context you already have so far. Query provided by the user: ")

\* One entry of the call log: the function called, the query handed to it,
\* the prompt and temperature of a generation call made directly by the
\* orchestrator, and what the call produced (Fault when it raised).
Call(fn, arg, prompt, temperature, out) ==
    [fn |-> fn, arg |-> arg, prompt |-> prompt, temperature |-> temperature, out |-> out]

Logged(r, call) == [r EXCEPT !.calls = Append(@, call)]

Return(r, value) == [r EXCEPT !.pc = "done", !.outcome = "returned", !.response = value]

Raise(r) == [r EXCEPT !.pc = "done", !.outcome = "raised"]

NewRequest(query, conversation_context, spell) ==
    [pc |-> "start", query |-> query, conversation_context |-> conversation_context,
     spell |-> spell, ctx |-> None, latest_query |-> None, label |-> None,
     calls |-> <<>>, response |-> None, outcome |-> "running"]

\* Begin without the strip() of line 80: a blank query is not rejected
BeginNoStrip(r) ==
    LET ctx == trim_conversation_context(r.conversation_context, MaxPairs)
        raw_query == IF Truthy(r.query) THEN r.query ELSE <<>>
    IN IF raw_query = <<>>
       THEN Return([r EXCEPT !.ctx = ctx], None)
       ELSE [r EXCEPT !.ctx = ctx,
                      !.latest_query = IF r.spell THEN fix_string(raw_query) ELSE raw_query,
                      !.pc = "faq"]

\* lines 71-87: trim the context, normalise the query, reject an empty one
Begin(r) ==
    LET ctx == trim_conversation_context(r.conversation_context, MaxPairs)
        raw_query == Strip(IF Truthy(r.query) THEN r.query ELSE <<>>)
    IN IF raw_query = <<>>
       THEN Return([r EXCEPT !.ctx = ctx], None)
       ELSE [r EXCEPT !.ctx = ctx,
                      !.latest_query = IF r.spell THEN fix_string(raw_query) ELSE raw_query,
                      !.pc = "faq"]

\* line 93: the argument of query_faq_chroma
FaqArg(r) == r.latest_query

\* IsGenuineAnswer without the comparison with "N/A"
IsGenuineAnswerNoSentinel(response) == Truthy(response)

\* line 97: `if response and response != "N/A"`
IsGenuineAnswer(response) == Truthy(response) /\ response # NA

\* FaqAttempt with the lookup issued once more after it raised
FaqAttemptRetry(r, out) ==
    LET logged == Logged(r, Call("query_faq_chroma", FaqArg(r), <<>>, "0.2", out))
    IN IF out = Fault
       THEN [logged EXCEPT !.pc = IF Len(r.calls) = 0 THEN "faq" ELSE "apology"]
       ELSE IF IsGenuineAnswer(out) THEN Return(logged, out)
       ELSE [logged EXCEPT !.pc = "classify", !.response = out]

\* lines 92-99: the FAQ lookup and what follows from its outcome
FaqAttempt(r, out) ==
    LET logged == Logged(r, Call("query_faq_chroma", FaqArg(r), <<>>, "0.2", out))
    IN IF out = Fault THEN [logged EXCEPT !.pc = "apology"]
       ELSE IF IsGenuineAnswer(out) THEN Return(logged, out)
       ELSE [logged EXCEPT !.pc = "classify", !.response = out]

\* lines 102-116 and 131-143: the prompt of the fail-soft branch
ApologyPrompt(r) ==
    LET prompt == <<RephraseInstruction, Val(r.latest_query)>>
    IN IF Truthy(r.ctx)
       THEN <<Lit("Conversation so far:\n"), Val(Strip(r.ctx)),
              Lit("\n\nLatest query: "), Val(r.latest_query)>>
       ELSE prompt

\* lines 117-119 and 144-146: the one generation call of the fail-soft branch
Apologize(r, out) ==
    LET logged == Logged(r, Call("generate_apology", r.latest_query, ApologyPrompt(r), "1.0", out))
    IN IF out = Fault THEN Raise(logged) ELSE Return(logged, out)

\* ClassifyArg with the transcript concatenated ahead of the query
ClassifyArgWithContext(r) ==
    IF Truthy(r.ctx) THEN r.ctx \o <<"\n">> \o r.latest_query ELSE r.latest_query

\* line 124 and query_type.py 22-28: the argument and prompt of get_query_type
ClassifyArg(r) == r.latest_query

ClassifyPrompt(query) == <<Lit("get_query_type.txt"), Val(query)>>

\* IsProductLabel with the label stripped before the comparison
IsProductLabelStripped(label) == Strip(label) = PRODUCT

\* line 126: `if label == "PRODUCT"`
IsProductLabel(label) == label = PRODUCT

\* lines 124-126: classification is outside every try block
Classify(r, out) ==
    LET logged == Logged(r, Call("get_query_type", ClassifyArg(r),
                                 ClassifyPrompt(ClassifyArg(r)), "0.3", out))
    IN IF out = Fault THEN Raise(logged)
       ELSE [logged EXCEPT !.label = out,
                           !.pc = IF IsProductLabel(out) THEN "product" ELSE "fallthrough"]

\* line 128: the argument of query_products
ProductArg(r) == r.latest_query

\* The entry of query_products in the call log
ProductEntry(r) == CHOOSE k \in 1..Len(r.calls) : r.calls[k].fn = "query_products"

\* ProductFault with the except block left without its return
ProductFaultFallsThrough(r) ==
    [r EXCEPT !.calls[ProductEntry(r)].out = Fault, !.pc = "fallthrough"]

\* line 130: an exception anywhere in query_products reaches the except block
ProductFault(r) == [r EXCEPT !.calls[ProductEntry(r)].out = Fault, !.pc = "apology"]

\* query_products.py 210: technical_or_creative(query), the first call of query_products
ProductLabel(r, out) ==
    LET query == ProductArg(r)
        entered == Logged(r, Call("query_products", query, <<>>, "", None))
        logged == Logged(entered, Call("technical_or_creative", query,
                                       <<Lit("technical_or_creative.txt"), Val(query)>>, "0", out))
    IN IF out = Fault THEN ProductFault(logged)
       ELSE [logged EXCEPT !.pc = "filters"]

\* query_products.py 216, 82: the Filter Spec generator is handed the same query
ProductFilters(r, out) ==
    LET query == r.calls[ProductEntry(r)].arg
        logged == Logged(r, Call("generate_serializeable_metadata_filters_from_query", query,
                                 <<Lit("generate_metadata_filters_from_query.txt"), Val(query)>>,
                                 "0.0", out))
    IN IF out = Fault THEN ProductFault(logged)
       ELSE [logged EXCEPT !.pc = "index"]

\* query_products.py 88-152: the embedding of the query and the index queries
ProductIndex(r, out) ==
    LET query == r.calls[ProductEntry(r)].arg
        logged == Logged(r, Call("products_index_query", query, <<>>, "", out))
    IN IF out = Fault THEN ProductFault(logged)
       ELSE [logged EXCEPT !.pc = "synth"]

\* query_products.py 219-227: the answer is the generation call's output verbatim
ProductSynth(r, out) ==
    LET query == r.calls[ProductEntry(r)].arg
        logged == Logged(r, Call("generate_product_answer", query,
                                 <<Lit("query_products.txt"), Val(query)>>, "task", out))
    IN IF out = Fault THEN ProductFault(logged)
       ELSE Return([logged EXCEPT !.calls[ProductEntry(r)].out = out], out)

\* lines 149-168: the default template, with the transcript ahead of it if any
FallThroughPrompt(r) ==
    LET filled_prompt == <<Lit("fall_through_query_type.txt"), Val(r.latest_query)>>
    IN IF Truthy(r.ctx)
       THEN <<Lit("You are continuing a multi-turn conversation with a user. Use the dialogue so far plus the latest question to answer.\n\n"),
              Lit("Conversation so far:\n"), Val(Strip(r.ctx)),
              Lit("\n\nLatest user message: "), Val(r.latest_query),
              Lit("\n\nInstructions and additional guidance:\n")>> \o filled_prompt
       ELSE filled_prompt

\* line 170: temperature=0.5
FallThroughTemperature == "0.5"

\* lines 170-172: the fall-through generation is outside every try block
FallThroughGenerate(r, out) ==
    LET logged == Logged(r, Call("generate_fall_through", r.latest_query,
                                 FallThroughPrompt(r), FallThroughTemperature, out))
    IN IF out = Fault THEN Raise(logged) ELSE Return(logged, out)

-----------------------------------------------------------------------------
(* The Filter Spec generator (src/metadata_filters.py) *)

\* Values of the JSON object parsed from the generation service's answer
JList(items) == [t |-> "list", items |-> items]
JStr(s) == [t |-> "str", s |-> s]
JNum(n) == [t |-> "num", n |-> n]
JNull == [t |-> "null"]
JDict(min, max) == [t |-> "dict", min |-> min, max |-> max]
JObject(entries) == [t |-> "object", entries |-> entries]

\* An exception raised while a value was being computed
Raised == [t |-> "raised"]

\* One filter triple {"field", "operator", "value"}; a value is a number
\* (price bounds) or a list of accepted values
Num(n) == [num |-> n]
Items(list) == [items |-> list]
Filter(field, operator, value) == [field |-> field, operator |-> operator, value |-> value]

\* x in a tuple or list
Contains(list, x) == \E k \in 1..Len(list) : list[k] = x

\* PriceFilters skipping only the range that is open at both ends
PriceFiltersOpenOnly(key, value) ==
    IF value.t # "dict" THEN JList(<<>>)
    ELSE IF value.min = JNull \/ value.max = JNull THEN JList(<<>>)
    ELSE IF value.min.t # "num" THEN Raised
    ELSE IF value.min.n <= 0 /\ value.max = JStr("inf") THEN JList(<<>>)
    ELSE IF value.max.t # "num" THEN Raised
    ELSE JList(<<Filter(key, ">", Num(value.min.n)), Filter(key, "<", Num(value.max.n))>>)

\* lines 81-108: the filters of the 'price' entry; Raised when a comparison
\* or float() raises on a value that is no number
PriceFilters(key, value) ==
    IF value.t # "dict" THEN JList(<<>>)
    ELSE IF value.min = JNull \/ value.max = JNull THEN JList(<<>>)
    ELSE IF value.min.t # "num" THEN Raised
    ELSE IF value.min.n <= 0 \/ value.max = JStr("inf") THEN JList(<<>>)
    ELSE IF value.max.t # "num" THEN Raised
    ELSE JList(<<Filter(key, ">", Num(value.min.n)), Filter(key, "<", Num(value.max.n))>>)

\* CategoryFilters keeping a filter with an empty value list
CategoryFiltersKeepEmpty(key, value) ==
    LET value_list == IF value.t = "list" THEN value.items
                      ELSE IF value.t = "str" THEN <<value.s>>
                      ELSE <<value>>
    IN JList(<<Filter(key, "in", Items(value_list))>>)

\* lines 109-127: the filter of a categorical entry
CategoryFilters(key, value) ==
    LET value_list == IF value.t = "list" THEN value.items
                      ELSE IF value.t = "str" THEN <<value.s>>
                      ELSE <<value>>
    IN IF value_list = <<>> THEN JList(<<>>)
       ELSE JList(<<Filter(key, "in", Items(value_list))>>)

RECURSIVE FiltersFrom(_, _, _, _)
\* lines 75-127: the loop over the entries of the parsed object
FiltersFrom(entries, k, valid_keys, acc) ==
    IF k > Len(entries) THEN JList(acc)
    ELSE LET key == entries[k].key
             value == entries[k].value
         IN IF ~Contains(valid_keys, key)
            THEN FiltersFrom(entries, k + 1, valid_keys, acc)
            ELSE LET more == IF key = "price" THEN PriceFilters(key, value)
                             ELSE CategoryFilters(key, value)
                 IN IF more = Raised THEN Raised
                    ELSE FiltersFrom(entries, k + 1, valid_keys, acc \o more.items)

\* generate_serializeable_metadata_filters_from_query, given the parsed
\* answer and the lines of filter_on_list.txt: None, a list of filters, or
\* Raised when the answer is no object and has no .items()
generate_serializeable_metadata_filters(metadata_filters_from_query, valid_keys) ==
    IF metadata_filters_from_query = JNull THEN JNull
    ELSE IF metadata_filters_from_query.t # "object" THEN Raised
    ELSE FiltersFrom(metadata_filters_from_query.entries, 1, valid_keys, <<>>)

\* `not filters` of a value that is None or a list
NoFilters(filters) == filters = JNull \/ filters = JList(<<>>)

-----------------------------------------------------------------------------
(* The product engine's retrieval (src/query_products.py) *)

\* A `where` argument: None (omitted), {} , one clause, or {"$and": [...]}
WhereNone == [kind |-> "none"]
WhereEmpty == [kind |-> "empty"]
WhereClause(clause) == [kind |-> "clause", clause |-> clause]
WhereAnd(clauses) == [kind |-> "and", clauses |-> clauses]

\* dict.get on a key that is absent
Missing == "<missing>"

Clause(field, op, value) == [field |-> field, op |-> op, value |-> value]

\* lines 48-50: a value that is no list becomes a list of one
AsList(value) == IF "items" \in DOMAIN value THEN value ELSE Items(<<value>>)

RECURSIVE ClausesFrom(_, _, _)
\* lines 35-54: one clause per filter, skipping the malformed ones
ClausesFrom(filters, k, clauses) ==
    IF k > Len(filters) THEN clauses
    ELSE LET f == filters[k]
         IN IF f.field \in {Missing, ""} \/ f.operator = Missing
            THEN ClausesFrom(filters, k + 1, clauses)
            ELSE IF f.operator = ">"
                 THEN ClausesFrom(filters, k + 1, Append(clauses, Clause(f.field, "$gt", f.value)))
            ELSE IF f.operator = "<"
                 THEN ClausesFrom(filters, k + 1, Append(clauses, Clause(f.field, "$lt", f.value)))
            ELSE IF f.operator = "in"
                 THEN ClausesFrom(filters, k + 1, Append(clauses, Clause(f.field, "$in", AsList(f.value))))
            ELSE ClausesFrom(filters, k + 1, clauses)

\* _build_chroma_where_from_filters wrapping a single clause in $and as well
build_chroma_where_always_and(filters) ==
    IF NoFilters(filters) THEN WhereEmpty
    ELSE LET clauses == ClausesFrom(filters.items, 1, <<>>)
         IN IF clauses = <<>> THEN WhereEmpty ELSE WhereAnd(clauses)

\* _build_chroma_where_from_filters
build_chroma_where_from_filters(filters) ==
    IF NoFilters(filters) THEN WhereEmpty
    ELSE LET clauses == ClausesFrom(filters.items, 1, <<>>)
         IN IF clauses = <<>> THEN WhereEmpty
            ELSE IF Len(clauses) = 1 THEN WhereClause(clauses[1])
            ELSE WhereAnd(clauses)

\* `if not where_clause` at lines 95 and 124
NoWhere(where_clause) == where_clause \in {WhereNone, WhereEmpty}

\* lines 95-96: the `where` that reaches the index
IssuedWhere(where_clause) == IF NoWhere(where_clause) THEN WhereNone ELSE where_clause

RECURSIVE SelectFilters(_, _)
\* [f for f in current_filters if f.get('field') not in to_drop]
SelectFilters(current_filters, to_drop) ==
    IF current_filters = <<>> THEN <<>>
    ELSE IF Head(current_filters).field \notin to_drop
         THEN <<Head(current_filters)>> \o SelectFilters(Tail(current_filters), to_drop)
         ELSE SelectFilters(Tail(current_filters), to_drop)

\* _filters_without_low_importance dropping importance_order[drop_after_index:]
filters_without_index_and_lower(current_filters, drop_after_index, importance_order) ==
    IF drop_after_index + 1 >= Len(importance_order) THEN current_filters
    ELSE LET to_drop == {importance_order[k] : k \in (drop_after_index + 1)..Len(importance_order)}
         IN JList(SelectFilters(current_filters.items, to_drop))

\* _filters_without_low_importance; drop_after_index counts from 0
filters_without_low_importance(current_filters, drop_after_index, importance_order) ==
    IF drop_after_index + 1 >= Len(importance_order) THEN current_filters
    ELSE LET to_drop == {importance_order[k] : k \in (drop_after_index + 2)..Len(importance_order)}
         IN JList(SelectFilters(current_filters.items, to_drop))

\* n_results of every index query
TopN == 20

\* line 140: relax when the full filter gave fewer results than this
RelaxBelow == 10

\* lines 145 and 149: a step with at least this many results is returned
EnoughResults == 5

\* NeedsRelaxation with the threshold of the relaxation steps
NeedsRelaxationBelowEnough(res, filters) == res.n < EnoughResults /\ ~NoFilters(filters)

\* line 140: `if len(res) < 10 and filters`
NeedsRelaxation(res, filters) == res.n < RelaxBelow /\ ~NoFilters(filters)

\* line 145: `if len(res) >= 5`
IsEnough(res) == res.n >= EnoughResults

\* line 149: `if len(res) < 5`
NeedsFallback(res) == res.n < EnoughResults

\* _run_chroma_query: one index query, logged, whose results become res;
\* results are told apart by the query that produced them
RunChromaQuery(r, kind, where_clause, n) ==
    LET res == [seq |-> Len(r.queries) + 1, kind |-> kind, where |-> IssuedWhere(where_clause),
                limit |-> TopN, n |-> n]
    IN [r EXCEPT !.queries = Append(@, res), !.res = res]

RelReturn(r) == [r EXCEPT !.pc = "done", !.returned = r.res]

NoResults == [seq |-> 0, kind |-> "none", where |-> WhereNone, limit |-> 0, n |-> 0]

NewRetrieval(filter_on_list, generated) ==
    [pc |-> "filters", filter_on_list |-> filter_on_list, generated |-> generated,
     filters |-> JNull, base_where |-> WhereEmpty, i |-> 0, queries |-> <<>>,
     res |-> NoResults, returned |-> NoResults]

\* lines 82-85: the Filter Spec and the base where clause
Prepare(r) ==
    LET filters == generate_serializeable_metadata_filters(r.generated, r.filter_on_list)
    IN IF filters = Raised THEN [r EXCEPT !.pc = "raised"]
       ELSE LET base_where == build_chroma_where_from_filters(filters)
            IN [r EXCEPT !.filters = filters, !.base_where = base_where,
                         !.pc = IF NoWhere(base_where) THEN "semantic" ELSE "full"]

\* SemanticOnly going on to the final search instead of returning
SemanticOnlyThenFallback(r, n) ==
    [RunChromaQuery(r, "semantic", WhereNone, n) EXCEPT !.pc = "fallback"]

\* lines 124-125: no filter, one pure semantic search
SemanticOnly(r, n) == RelReturn(RunChromaQuery(r, "semantic", WhereNone, n))

\* lines 128-140: the query with the full filter, and whether to relax;
\* importance_order is read from the file valid_keys was read from
FullQuery(r, n) ==
    LET queried == RunChromaQuery(r, "full", r.base_where, n)
    IN IF NeedsRelaxation(queried.res, r.filters)
       THEN [queried EXCEPT !.i = 0,
                            !.pc = IF Len(r.filter_on_list) > 0 THEN "relax" ELSE "fallback"]
       ELSE RelReturn(queried)

\* lines 141-146: one pass of the loop over importance_order
RelaxStep(r, n) ==
    LET reduced_filters == filters_without_low_importance(r.filters, r.i, r.filter_on_list)
        where_reduced == build_chroma_where_from_filters(reduced_filters)
        queried == RunChromaQuery(r, "relax", where_reduced, n)
    IN IF IsEnough(queried.res) THEN RelReturn(queried)
       ELSE [queried EXCEPT !.i = r.i + 1,
                            !.pc = IF r.i + 1 < Len(r.filter_on_list) THEN "relax" ELSE "fallback"]

\* FinalFallback searching again whatever the number of results
FinalFallbackAlways(r, n) == RelReturn(RunChromaQuery(r, "fallback", WhereNone, n))

\* lines 148-152: the final unfiltered search
FinalFallback(r, n) ==
    IF NeedsFallback(r.res) THEN RelReturn(RunChromaQuery(r, "fallback", WhereNone, n))
    ELSE RelReturn(r)

-----------------------------------------------------------------------------
(* Inputs and the environment's answers *)

MaxQueryLen == 2
MaxContextLen == 2

RECURSIVE SeqsUpTo(_, _)
SeqsUpTo(S, n) ==
    IF n = 0 THEN {<<>>}
    ELSE LET shorter == SeqsUpTo(S, n - 1)
         IN shorter \cup {Append(s, c) : s \in {t \in shorter : Len(t) = n - 1}, c \in S}

\* the query argument: None, or text of spaces and letters; "hte" is the
\* misspelling the corrector's demo repairs
Queries ==
    {None, <<"h", "t", "e">>, <<"H", "t", "e", "?">>} \cup SeqsUpTo({" ", "t"}, MaxQueryLen)

\* the conversation_context argument: None, or lines of a transcript
Contexts == {None} \cup SeqsUpTo({"\n", " ", "t"}, MaxContextLen)

\* what the generation service may return as text
Texts == {<<>>, NA, <<"o", "k">>}

\* query_faq_chroma returns None (no match) or the synthesized text, or raises
FaqOutcomes == {Fault, None} \cup Texts

\* get_query_type returns the generation service's text as it is, or raises
LabelOutcomes == {Fault, PRODUCT, PRODUCT \o <<"\n">>, <<"O", "T", "H", "E", "R">>, <<>>}

GenOutcomes == {Fault} \cup Texts

\* technical_or_creative returns the generation service's text, or raises
TaskOutcomes ==
    {Fault, <<"T", "E", "C", "H", "N", "I", "C", "A", "L">>,
     <<"C", "R", "E", "A", "T", "I", "V", "E">>}

\* the retrieval calls inside query_products succeed or raise
StepOutcomes == {Fault, <<"o", "k">>}

Idle == NewRequest(None, None, FALSE)

OrchInit ==
    /\ \E q \in Queries, c \in Contexts, s \in BOOLEAN : run = NewRequest(q, c, s)
    /\ run2 = Idle

Start ==
    /\ run.pc = "start"
    /\ run' = Begin(run)
    /\ UNCHANGED <<run2, rel, app, srv>>

FaqLookup ==
    /\ run.pc = "faq"
    /\ \E out \in FaqOutcomes : run' = FaqAttempt(run, out)
    /\ UNCHANGED <<run2, rel, app, srv>>

Classification ==
    /\ run.pc = "classify"
    /\ \E out \in LabelOutcomes : run' = Classify(run, out)
    /\ UNCHANGED <<run2, rel, app, srv>>

ProductTask ==
    /\ run.pc = "product"
    /\ \E out \in TaskOutcomes : run' = ProductLabel(run, out)
    /\ UNCHANGED <<run2, rel, app, srv>>

ProductFilterSpec ==
    /\ run.pc = "filters"
    /\ \E out \in StepOutcomes : run' = ProductFilters(run, out)
    /\ UNCHANGED <<run2, rel, app, srv>>

ProductRetrieval ==
    /\ run.pc = "index"
    /\ \E out \in StepOutcomes : run' = ProductIndex(run, out)
    /\ UNCHANGED <<run2, rel, app, srv>>

ProductAnswer ==
    /\ run.pc = "synth"
    /\ \E out \in GenOutcomes : run' = ProductSynth(run, out)
    /\ UNCHANGED <<run2, rel, app, srv>>

FallThrough ==
    /\ run.pc = "fallthrough"
    /\ \E out \in GenOutcomes : run' = FallThroughGenerate(run, out)
    /\ UNCHANGED <<run2, rel, app, srv>>

Apology ==
    /\ run.pc = "apology"
    /\ \E out \in GenOutcomes : run' = Apologize(run, out)
    /\ UNCHANGED <<run2, rel, app, srv>>

RelIdle == rel = [pc |-> "idle"]

\* No function is being applied on its own
AppIdle == app = [pc |-> "idle"]

\* No HTTP request is being served
SrvIdle == srv = [pc |-> "idle"]

Init == OrchInit /\ RelIdle /\ AppIdle /\ SrvIdle

Next ==
    \/ Start
    \/ FaqLookup
    \/ Classification
    \/ ProductTask
    \/ ProductFilterSpec
    \/ ProductRetrieval
    \/ ProductAnswer
    \/ FallThrough
    \/ Apology

Spec == Init /\ [][Next]_vars

-----------------------------------------------------------------------------
(* get_relevant_products_from_query, one index query per step *)

MaxOrderLen == 3

Fields == {"category", "season", "price"}

\* the lines of filter_on_list.txt: the whitelist, and the importance order
FilterOnLists == SeqsUpTo(Fields, MaxOrderLen)

Item(key, value) == [key |-> key, value |-> value]

\* objects the generation service's answer may parse to; "brand" is never a
\* line of filter_on_list.txt
GeneratedFilters ==
    { JNull,
      JObject(<<>>),
      JObject(<<Item("category", JList(<<"jacket">>))>>),
      JObject(<<Item("category", JList(<<"jacket">>)), Item("price", JDict(JNum(0), JNum(400)))>>),
      JObject(<<Item("price", JDict(JNum(100), JNum(400))), Item("category", JList(<<"jacket">>))>>),
      JObject(<<Item("season", JStr("winter")), Item("category", JList(<<"jacket", "coat">>)),
        Item("price", JDict(JNum(100), JStr("inf")))>>),
      JObject(<<Item("category", JList(<<"jacket">>)), Item("season", JList(<<"winter">>)),
        Item("price", JDict(JNum(100), JNum(400)))>>),
      JObject(<<Item("season", JList(<<>>)), Item("brand", JList(<<"acme">>)),
        Item("price", JDict(JNum(100), JNull))>>),
      JObject(<<Item("price", JDict(JStr("cheap"), JNum(400)))>>) }

\* how many records an index query may return: the values around the
\* thresholds 5 and 10, none, and the limit
ResultCounts == {0, EnoughResults - 1, EnoughResults, RelaxBelow - 1, RelaxBelow, TopN}

RelInit ==
    /\ \E l \in FilterOnLists, g \in GeneratedFilters : rel = NewRetrieval(l, g)
    /\ run = Idle
    /\ run2 = Idle
    /\ AppIdle
    /\ SrvIdle

GenerateFilters ==
    /\ rel.pc = "filters"
    /\ rel' = Prepare(rel)
    /\ UNCHANGED <<run, run2, app, srv>>

QuerySemantic ==
    /\ rel.pc = "semantic"
    /\ \E n \in ResultCounts : rel' = SemanticOnly(rel, n)
    /\ UNCHANGED <<run, run2, app, srv>>

QueryFull ==
    /\ rel.pc = "full"
    /\ \E n \in ResultCounts : rel' = FullQuery(rel, n)
    /\ UNCHANGED <<run, run2, app, srv>>

QueryRelaxed ==
    /\ rel.pc = "relax"
    /\ \E n \in ResultCounts : rel' = RelaxStep(rel, n)
    /\ UNCHANGED <<run, run2, app, srv>>

QueryFallback ==
    /\ rel.pc = "fallback"
    /\ \E n \in ResultCounts : rel' = FinalFallback(rel, n)
    /\ UNCHANGED <<run, run2, app, srv>>

RelNext ==
    \/ GenerateFilters
    \/ QuerySemantic
    \/ QueryFull
    \/ QueryRelaxed
    \/ QueryFallback

SpecRelax == RelInit /\ [][RelNext]_vars

-----------------------------------------------------------------------------
(* Reading the call log *)

Called(r, fn) == \E k \in 1..Len(r.calls) : r.calls[k].fn = fn

Count(r, fn) == Cardinality({k \in 1..Len(r.calls) : r.calls[k].fn = fn})

\* the entry of the one call of fn
Entry(r, fn) == r.calls[CHOOSE k \in 1..Len(r.calls) : r.calls[k].fn = fn]

LastCall(r) == r.calls[Len(r.calls)]

\* None, "" or only whitespace, said without str.strip()
EmptyQuery(q) == q = None \/ \A i \in 1..Len(q) : q[i] \in {" ", "\n"}

NoMatch == {None, <<>>, NA}

FaqFaulted(r) == Called(r, "query_faq_chroma") /\ Entry(r, "query_faq_chroma").out = Fault

ProductFaulted(r) == Called(r, "query_products") /\ Entry(r, "query_products").out = Fault

-----------------------------------------------------------------------------
(* C1 *)

\* C1: for a non-empty query the classifier get_query_type is invoked if and
\* only if query_faq_chroma returned, without raising, None, "" or "N/A"; a
\* genuine FAQ answer is returned as the result and then neither the
\* classifier, nor the product engine, nor the fall-through generation is
\* ever invoked.
C1_ClassifierIffFaqNoMatch ==
    /\ Called(run, "get_query_type") =>
          /\ Called(run, "query_faq_chroma")
          /\ Entry(run, "query_faq_chroma").out \in NoMatch
    /\ (Called(run, "query_faq_chroma") /\ Entry(run, "query_faq_chroma").out \in NoMatch) =>
          (run.pc = "classify" \/ Called(run, "get_query_type"))
    /\ (run.pc = "done" /\ ~EmptyQuery(run.query)) => Called(run, "query_faq_chroma")
    /\ (Called(run, "query_faq_chroma")
        /\ Entry(run, "query_faq_chroma").out \notin NoMatch \cup {Fault}) =>
          /\ run.pc = "done" /\ run.outcome = "returned"
          /\ run.response = Entry(run, "query_faq_chroma").out
          /\ ~Called(run, "get_query_type")
          /\ ~Called(run, "query_products")
          /\ ~Called(run, "generate_fall_through")

\* the FAQ synthesis answered "N/A" and the classifier ran
C1_Witness ==
    /\ run.pc = "done"
    /\ Called(run, "query_faq_chroma") /\ Entry(run, "query_faq_chroma").out = NA
    /\ Called(run, "get_query_type")

-----------------------------------------------------------------------------
(* C2 *)

\* C2: once a label has been obtained, query_products is invoked exactly
\* when the label equals "PRODUCT"; for every other label (also one outside
\* the expected set) the fall-through generation is invoked, at temperature
\* 0.5; never both; and the request raises only when a call raised, never
\* because of the label.
C2_LabelDecidesBranch ==
    /\ ~(Called(run, "query_products") /\ Called(run, "generate_fall_through"))
    /\ Called(run, "query_products") => run.label = PRODUCT
    /\ Called(run, "generate_fall_through") =>
          /\ run.label # None /\ run.label # PRODUCT
          /\ Entry(run, "generate_fall_through").temperature = "0.5"
          /\ Count(run, "generate_fall_through") = 1
    /\ (run.pc = "done" /\ run.label # None) =>
          /\ run.label = PRODUCT => Count(run, "query_products") = 1
          /\ run.label # PRODUCT => Count(run, "generate_fall_through") = 1
          /\ run.outcome = "raised" => LastCall(run).out = Fault

\* a label outside the expected set ("PRODUCT" followed by a line break) was
\* answered by the fall-through generation
C2_Witness ==
    /\ run.pc = "done" /\ run.outcome = "returned"
    /\ run.label = PRODUCT \o <<"\n">>
    /\ Called(run, "generate_fall_through")

-----------------------------------------------------------------------------
(* C3 *)

\* C3: do_execute_prompt returns None if and only if the query is None,
\* empty or only whitespace, and then no service was called; every other
\* request that returns, returns a string.
C3_NullIffEmptyQuery ==
    /\ EmptyQuery(run.query) => run.calls = <<>>
    /\ run.pc = "done" =>
          /\ EmptyQuery(run.query) <=> (run.outcome = "returned" /\ run.response = None)
          /\ (~EmptyQuery(run.query) /\ run.outcome = "returned") =>
                /\ run.response # None
                /\ run.response = LastCall(run).out

\* a whitespace-only query was rejected without any call
C3_Witness ==
    /\ run.pc = "done" /\ run.query = <<" ", " ">>
    /\ run.response = None /\ run.calls = <<>>

-----------------------------------------------------------------------------
(* C4 *)

\* C4: after query_faq_chroma or query_products raised, exactly one further
\* call is made, the apology generation call, directly after the call that
\* raised; what it returns is the result; the retrieval fault itself is never
\* what the request raises; and no later stage runs (no classification and
\* no product engine after a FAQ fault, no fall-through after either).
C4_RetrievalFaultFailsSoft ==
    (FaqFaulted(run) \/ ProductFaulted(run)) =>
        /\ run.pc \in {"apology", "done"}
        /\ ~Called(run, "generate_fall_through")
        /\ FaqFaulted(run) => (~Called(run, "get_query_type") /\ ~Called(run, "query_products"))
        /\ run.pc = "apology" => (~Called(run, "generate_apology") /\ LastCall(run).out = Fault)
        /\ run.pc = "done" =>
              /\ Count(run, "generate_apology") = 1
              /\ LastCall(run).fn = "generate_apology"
              /\ run.calls[Len(run.calls) - 1].out = Fault
              /\ run.outcome = "returned" => run.response = LastCall(run).out
              /\ run.outcome = "raised" => LastCall(run).out = Fault

\* the product engine raised and the apology text was returned
C4_Witness ==
    /\ run.pc = "done" /\ ProductFaulted(run)
    /\ run.outcome = "returned" /\ run.response = <<"o", "k">>

-----------------------------------------------------------------------------
(* C5 *)

\* C5: for every non-empty query and every fault of a service in any stage,
\* do_execute_prompt never raises to its caller.
C5_NeverRaises == run.outcome # "raised"

-----------------------------------------------------------------------------
(* C6 *)

HasInstruction(prompt) == \E k \in 1..Len(prompt) : prompt[k] = RephraseInstruction

\* C6: the prompt of every apology generation call contains the fixed
\* "instruct them to rephrase" instruction, with and without a trimmed
\* conversation context.
C6_ApologyKeepsInstruction ==
    Called(run, "generate_apology") => HasInstruction(Entry(run, "generate_apology").prompt)

-----------------------------------------------------------------------------
(* C8 *)

Stages ==
    {"query_faq_chroma", "get_query_type", "query_products", "generate_fall_through",
     "generate_apology", "technical_or_creative",
     "generate_serializeable_metadata_filters_from_query", "products_index_query",
     "generate_product_answer"}

\* C8: within one request every stage is invoked at most once, and once a
\* call has raised the only call that can follow is the one apology
\* generation call (the call that raised is never issued again).
C8_NoRetry ==
    /\ \A fn \in Stages : Count(run, fn) <= 1
    /\ \A k \in 1..Len(run.calls) : run.calls[k].fn \in Stages
    /\ \A k \in 1..Len(run.calls) :
          (run.calls[k].out = Fault /\ run.calls[k].fn # "query_products") =>
              \A j \in (k + 1)..Len(run.calls) :
                  /\ run.calls[j].fn = "generate_apology"
                  /\ j = k + 1

\* the FAQ lookup raised and the apology call was the only call after it
C8_Witness ==
    /\ run.pc = "done" /\ FaqFaulted(run)
    /\ Len(run.calls) = 2 /\ LastCall(run).fn = "generate_apology"

-----------------------------------------------------------------------------
(* Two requests with the same query and different conversation contexts,   *)
(* run side by side against the same services: a service answers the same  *)
(* call (function, argument, prompt, temperature) the same way.            *)

MaxPairContextLen == 1

PairContexts == {None} \cup SeqsUpTo({"\n", " ", "t"}, MaxPairContextLen)

PairInit ==
    /\ \E q \in Queries, c1 \in PairContexts, c2 \in PairContexts, s \in BOOLEAN :
          /\ c1 # c2
          /\ run = NewRequest(q, c1, s)
          /\ run2 = NewRequest(q, c2, s)
    /\ RelIdle
    /\ AppIdle
    /\ SrvIdle

SameCall(a, b) ==
    /\ a.fn = b.fn /\ a.arg = b.arg
    /\ a.prompt = b.prompt /\ a.temperature = b.temperature

\* the two requests' next states, given what the services answered
Answered(next1, next2, o1, o2) ==
    /\ run' = next1
    /\ run2' = next2
    /\ SameCall(LastCall(next1), LastCall(next2)) => o1 = o2

PairStart ==
    /\ run.pc = "start" /\ run2.pc = "start"
    /\ run' = Begin(run)
    /\ run2' = Begin(run2)
    /\ UNCHANGED <<rel, app, srv>>

PairFaqLookup ==
    /\ run.pc = "faq" /\ run2.pc = "faq"
    /\ \E o1 \in FaqOutcomes, o2 \in FaqOutcomes :
          Answered(FaqAttempt(run, o1), FaqAttempt(run2, o2), o1, o2)
    /\ UNCHANGED <<rel, app, srv>>

PairClassification ==
    /\ run.pc = "classify" /\ run2.pc = "classify"
    /\ \E o1 \in LabelOutcomes, o2 \in LabelOutcomes :
          Answered(Classify(run, o1), Classify(run2, o2), o1, o2)
    /\ UNCHANGED <<rel, app, srv>>

PairProductTask ==
    /\ run.pc = "product" /\ run2.pc = "product"
    /\ \E o1 \in TaskOutcomes, o2 \in TaskOutcomes :
          Answered(ProductLabel(run, o1), ProductLabel(run2, o2), o1, o2)
    /\ UNCHANGED <<rel, app, srv>>

PairProductFilterSpec ==
    /\ run.pc = "filters" /\ run2.pc = "filters"
    /\ \E o1 \in StepOutcomes, o2 \in StepOutcomes :
          Answered(ProductFilters(run, o1), ProductFilters(run2, o2), o1, o2)
    /\ UNCHANGED <<rel, app, srv>>

PairProductRetrieval ==
    /\ run.pc = "index" /\ run2.pc = "index"
    /\ \E o1 \in StepOutcomes, o2 \in StepOutcomes :
          Answered(ProductIndex(run, o1), ProductIndex(run2, o2), o1, o2)
    /\ UNCHANGED <<rel, app, srv>>

PairProductAnswer ==
    /\ run.pc = "synth" /\ run2.pc = "synth"
    /\ \E o1 \in GenOutcomes, o2 \in GenOutcomes :
          Answered(ProductSynth(run, o1), ProductSynth(run2, o2), o1, o2)
    /\ UNCHANGED <<rel, app, srv>>

PairFallThrough ==
    /\ run.pc = "fallthrough" /\ run2.pc = "fallthrough"
    /\ \E o1 \in GenOutcomes, o2 \in GenOutcomes :
          Answered(FallThroughGenerate(run, o1), FallThroughGenerate(run2, o2), o1, o2)
    /\ UNCHANGED <<rel, app, srv>>

PairApology ==
    /\ run.pc = "apology" /\ run2.pc = "apology"
    /\ \E o1 \in GenOutcomes, o2 \in GenOutcomes :
          Answered(Apologize(run, o1), Apologize(run2, o2), o1, o2)
    /\ UNCHANGED <<rel, app, srv>>

PairNext ==
    \/ PairStart
    \/ PairFaqLookup
    \/ PairClassification
    \/ PairProductTask
    \/ PairProductFilterSpec
    \/ PairProductRetrieval
    \/ PairProductAnswer
    \/ PairFallThrough
    \/ PairApology

SpecPair == PairInit /\ [][PairNext]_vars

-----------------------------------------------------------------------------
(* C7 *)

FinalGeneration == {"generate_apology", "generate_fall_through"}

\* C7: two requests with the same query and different conversation contexts
\* call the same functions in the same order (the same branch), hand the
\* same argument to the FAQ retriever, the classifier, the Filter Spec
\* generator and the product engine, and get the same label; only the prompt
\* of the final fall-through or apology generation call (and so its answer)
\* may differ.
C7_ContextNonInterference ==
    /\ run.pc = run2.pc
    /\ run.latest_query = run2.latest_query
    /\ run.label = run2.label
    /\ Len(run.calls) = Len(run2.calls)
    /\ \A k \in 1..Len(run.calls) :
          /\ run.calls[k].fn = run2.calls[k].fn
          /\ run.calls[k].arg = run2.calls[k].arg
          /\ run.calls[k].arg = run.latest_query
          /\ run.calls[k].fn \notin FinalGeneration => run.calls[k] = run2.calls[k]

\* both requests, with different transcripts, went through the product
\* engine and one ended with the fall-through prompts differing
C7_Witness ==
    /\ run.pc = "done" /\ run2.pc = "done"
    /\ Truthy(run.ctx) /\ ~Truthy(run2.ctx)
    /\ Called(run, "generate_fall_through")
    /\ LastCall(run).prompt # LastCall(run2).prompt

\* as above, on the product branch
C7_WitnessProduct ==
    /\ run.pc = "done" /\ run2.pc = "done"
    /\ Truthy(run.ctx) /\ ~Truthy(run2.ctx)
    /\ Called(run, "generate_serializeable_metadata_filters_from_query")
    /\ Called(run2, "generate_product_answer")

-----------------------------------------------------------------------------
(* Properties of the retrieval's relaxation *)

\* The fields an index query filtered on
FieldsOf(where) ==
    IF where.kind = "clause" THEN {where.clause.field}
    ELSE IF where.kind = "and" THEN {where.clauses[k].field : k \in 1..Len(where.clauses)}
    ELSE {}

\* The fields of the Filter Spec
SpecFields == {rel.filters.items[k].field : k \in 1..Len(rel.filters.items)}

\* The request has a non-empty Filter Spec, already generated
HasFilterSpec == rel.pc \notin {"filters", "raised"} /\ ~NoFilters(rel.filters)

\* The positions in the query log of the relaxation steps
RelaxSteps == {k \in 1..Len(rel.queries) : rel.queries[k].kind = "relax"}

\* The place of a field in the importance order, most important first
Rank(field) ==
    CHOOSE k \in 1..Len(rel.filter_on_list) :
        /\ rel.filter_on_list[k] = field
        /\ \A j \in 1..(k - 1) : rel.filter_on_list[j] # field

\* From the full Filter Spec on, each query of the relaxation filters on a
\* subset of the fields of the query before it
C9_StepsShrink ==
    HasFilterSpec =>
        \A k \in RelaxSteps :
            FieldsOf(rel.queries[k].where) \subseteq FieldsOf(rel.queries[k - 1].where)

\* At no relaxation step is a field still applied while a more important
\* field of the Filter Spec has been dropped
C9_ImportantKeptLongest ==
    HasFilterSpec =>
        \A k \in RelaxSteps : \A f, g \in SpecFields :
            (f \notin FieldsOf(rel.queries[k].where) /\ g \in FieldsOf(rel.queries[k].where))
                => Rank(g) < Rank(f)

\* C9: relaxation drops the least important fields first and keeps the most
\* important longest: every step filters on a subset of the fields of the
\* step before, and no less important field outlives a more important one
C9_RelaxationDropsLeastImportantFirst == C9_StepsShrink /\ C9_ImportantKeptLongest

\* C10: with a non-empty Filter Spec, relaxation is attempted exactly when the
\* full filter gave fewer than 10 results; with 10 or more that result is
\* returned after this one query; and the first relaxation step with at least
\* 5 results is returned with no query after it
C10_RelaxationThresholds ==
    HasFilterSpec =>
        LET q == rel.queries
        IN /\ Len(q) >= 1 => q[1].kind = "full"
           /\ (RelaxSteps # {} \/ rel.pc \in {"relax", "fallback"}) => q[1].n < 10
           /\ (rel.pc = "done" /\ q[1].n < 10) => RelaxSteps # {}
           /\ (rel.pc = "done" /\ q[1].n >= 10) => (Len(q) = 1 /\ rel.returned = q[1])
           /\ \A k \in RelaxSteps :
                  /\ q[k].n >= 5 => (k = Len(q) /\ rel.pc = "done" /\ rel.returned = q[k])
                  /\ k < Len(q) => q[k].n < 5

\* The full filter gave 9 results, the first relaxation step 4, the second 5,
\* and the second step's results were returned
C10_Witness ==
    /\ HasFilterSpec
    /\ rel.pc = "done"
    /\ Len(rel.queries) = 3
    /\ rel.queries[1].n = 9
    /\ rel.queries[2].kind = "relax" /\ rel.queries[2].n = 4
    /\ rel.queries[3].kind = "relax" /\ rel.queries[3].n = 5
    /\ rel.returned = rel.queries[3]

\* The full filter gave 10 results and they were returned after one query
C10_WitnessNoRelaxation ==
    /\ HasFilterSpec
    /\ rel.pc = "done"
    /\ Len(rel.queries) = 1
    /\ rel.queries[1].n = 10
    /\ rel.returned = rel.queries[1]

\* The positions in the query log of the queries issued with no filter
UnfilteredQueries == {k \in 1..Len(rel.queries) : rel.queries[k].where = WhereNone}

\* The final unfiltered search of lines 148-150 comes after the full filter
\* and one step per entry of the importance order, the last with fewer than
\* 5 results, and its results are returned whatever their count
C11_FallbackAfterExhaustion ==
    HasFilterSpec =>
        \A k \in 1..Len(rel.queries) :
            rel.queries[k].kind = "fallback" =>
                /\ k = Len(rel.filter_on_list) + 2
                /\ \A j \in 2..(k - 1) : rel.queries[j].kind = "relax"
                /\ rel.queries[k - 1].n < 5
                /\ k = Len(rel.queries)
                /\ rel.pc = "done"
                /\ rel.returned = rel.queries[k]

\* C11: with a non-empty Filter Spec, a query with the filter argument
\* omitted is issued only once every entry of the importance order has been
\* tried and the last step gave fewer than 5 results; it is the only such
\* query and its results are returned whatever their count
C11_UnfilteredOnlyAfterExhaustion ==
    HasFilterSpec =>
        /\ \A k \in UnfilteredQueries : rel.queries[k].kind = "fallback"
        /\ Cardinality(UnfilteredQueries) <= 1
        /\ C11_FallbackAfterExhaustion

\* The generation service answered {category: ["jacket"], price: {min: 0,
\* max: 400}} and both fields are lines of filter_on_list.txt
JacketUnder400 ==
    /\ rel.generated = JObject(<<Item("category", JList(<<"jacket">>)),
                                 Item("price", JDict(JNum(0), JNum(400)))>>)
    /\ Contains(rel.filter_on_list, "category")
    /\ Contains(rel.filter_on_list, "price")

\* C12: for the generated structure {category: ["jacket"], price: {min: 0,
\* max: 400}} with both fields whitelisted, the first product query filters
\* on the conjunction of price < 400 and category in [jacket]
C12_JacketUnder400Filter ==
    (JacketUnder400 /\ Len(rel.queries) >= 1) =>
        LET price == Clause("price", "$lt", Num(400))
            category == Clause("category", "$in", Items(<<"jacket">>))
        IN rel.queries[1].where \in {WhereAnd(<<price, category>>), WhereAnd(<<category, price>>)}

-----------------------------------------------------------------------------
(* The Filter Spec generator applied to one parsed answer *)

MaxPrice == 3

\* what the answer may hold under "min" and "max"
PriceBounds == {JNull, JStr("inf"), JStr("cheap")} \cup {JNum(n) : n \in -1..MaxPrice}

PriceValues == {JDict(min, max) : min, max \in PriceBounds} \cup {JList(<<"cheap">>)}

\* answers with a price entry, alone or beside a categorical entry
PricedAnswers ==
    UNION {{JObject(<<Item("price", v)>>),
            JObject(<<Item("category", JList(<<"jacket">>)), Item("price", v)>>),
            JObject(<<Item("price", v), Item("season", JStr("winter"))>>),
            JObject(<<Item("brand", JList(<<"acme">>)), Item("category", JList(<<>>)),
                      Item("season", JStr("winter")), Item("price", v)>>)} : v \in PriceValues}

Whitelists == {<<"price", "category">>, <<"category", "season">>, <<"season", "price">>}

Idles ==
    /\ run = Idle
    /\ run2 = Idle
    /\ RelIdle
    /\ SrvIdle

FilterSpecInit ==
    /\ \E g \in PricedAnswers, l \in Whitelists :
          app = [pc |-> "call", generated |-> g, valid_keys |-> l, result |-> JNull]
    /\ Idles

GenerateFilterSpec ==
    /\ app.pc = "call"
    /\ app' = [app EXCEPT !.pc = "done",
                          !.result = generate_serializeable_metadata_filters(app.generated, app.valid_keys)]
    /\ UNCHANGED <<run, run2, rel, srv>>

SpecFilterSpec == FilterSpecInit /\ [][GenerateFilterSpec]_vars

\* The value under "price" in the parsed answer
PriceOf(generated) ==
    LET k == CHOOSE k \in 1..Len(generated.entries) : generated.entries[k].key = "price"
    IN generated.entries[k].value

\* The filters on the price in a Filter Spec, in order
PriceClauses(filters) == SelectSeq(filters.items, LAMBDA f : f.field = "price")

\* The generator has run on a {min, max} price range with a number for min
\* and a number or 'inf' for max, price being a line of filter_on_list.txt
PriceRangeGiven ==
    /\ app.pc = "done"
    /\ Contains(app.valid_keys, "price")
    /\ PriceOf(app.generated).t = "dict"
    /\ PriceOf(app.generated).min.t = "num"
    /\ PriceOf(app.generated).max.t = "num" \/ PriceOf(app.generated).max = JStr("inf")

C13_WitnessOpen ==
    /\ PriceRangeGiven
    /\ PriceOf(app.generated) = JDict(JNum(0), JStr("inf"))
    /\ PriceClauses(app.result) = <<>>

-----------------------------------------------------------------------------
(* _trim_conversation_context applied to one transcript *)

MaxTrimLen == 5

MaxTrimPairs == 2

TrimContexts == {None} \cup SeqsUpTo({"\n", " ", "t"}, MaxTrimLen)

TrimInit ==
    /\ \E c \in TrimContexts, p \in 0..MaxTrimPairs :
          app = [pc |-> "call", conversation_context |-> c, max_pairs |-> p, result |-> None]
    /\ Idles

Trim ==
    /\ app.pc = "call"
    /\ app' = [app EXCEPT !.pc = "done",
                          !.result = trim_conversation_context(app.conversation_context, app.max_pairs)]
    /\ UNCHANGED <<run, run2, rel, srv>>

SpecTrim == TrimInit /\ [][Trim]_vars

\* The non-blank lines of a transcript, in order
NonBlankLines(ctx) == IF ctx = None THEN <<>> ELSE SelectLines(SplitLines(ctx))

\* C14: the trimmer returns null for a null, empty or all-blank transcript
\* and otherwise the last min(2 * max_pairs, n) of its n non-blank lines, in
\* order, joined by single newlines, for every max_pairs >= 0
C14_TrimKeepsTail ==
    app.pc = "done" =>
        LET lines == NonBlankLines(app.conversation_context)
            n == Len(lines)
            k == Min2(2 * app.max_pairs, n)
        IN app.result = IF n = 0 THEN None
                        ELSE JoinLines(SubSeq(lines, n - k + 1, n))

\* The same for max_pairs >= 1
C14_TrimKeepsTailPositive == app.max_pairs >= 1 => C14_TrimKeepsTail

-----------------------------------------------------------------------------
(* SpellCorrector.fix_string applied to one text *)

MaxTextLen == 3

SpellTexts == SeqsUpTo({"t", "h", "e", "T", "H", "E", "'", " "}, MaxTextLen)

SpellInit ==
    /\ \E t \in SpellTexts : app = [pc |-> "call", text |-> t, result |-> <<>>]
    /\ Idles

FixString ==
    /\ app.pc = "call"
    /\ app' = [app EXCEPT !.pc = "done", !.result = fix_string(app.text)]
    /\ UNCHANGED <<run, run2, rel, srv>>

SpecSpell == SpellInit /\ [][FixString]_vars

\* C15: fix_string returns every dictionary word, in any casing, unchanged
C15_DictionaryWordsFixed ==
    (app.pc = "done" /\ InDictionary(Lower(app.text))) => app.result = app.text

\* The same for the dictionary words made of letters only
C15_AlphabeticWordsFixed == IsAlphaStr(app.text) => C15_DictionaryWordsFixed

\* The tokens of a text with every alphabetic token replaced by a mark: the
\* runs of non-alphabetic characters and where they stand between the words
Skeleton(text) ==
    LET tokens == tokenize(text)
    IN [k \in 1..Len(tokens) |-> IF IsAlphaStr(tokens[k]) THEN <<"w">> ELSE tokens[k]]

\* C16: fix_string keeps every run of non-alphabetic characters unchanged,
\* in order and between the same alphabetic tokens, and keeps the number of
\* alphabetic tokens
C16_SkeletonPreserved ==
    app.pc = "done" => Skeleton(app.result) = Skeleton(app.text)

\* Every alphabetic token is replaced by a dictionary word or left alone
C16_TokensReplacedInPlace ==
    app.pc = "done" =>
        LET tokens == tokenize(app.text)
        IN \E words \in [1..Len(tokens) -> {Dictionary[k] : k \in 1..Len(Dictionary)} \cup {<<>>}] :
              app.result = Flatten([k \in 1..Len(tokens) |->
                              IF words[k] = <<>> \/ ~IsAlphaStr(tokens[k]) THEN tokens[k]
                              ELSE apply_case(tokens[k], words[k])])

-----------------------------------------------------------------------------
(* The FAQ retriever: query_faq_chroma (src/query_faq_chroma.py) *)

\* `a in b` for two strings
IsSubstring(a, b) == \E i \in 0..(Len(b) - Len(a)) : SubSeq(b, i + 1, i + Len(a)) = a

\* _normalize_keywords
normalize_keywords(kw_list) ==
    LET kept == SelectSeq(kw_list, LAMBDA kw : Strip(kw) # <<>>)
    IN [k \in 1..Len(kept) |-> Lower(Strip(kept[k]))]

\* " ".join(parts)
JoinSpaces(parts) ==
    Flatten([k \in 1..Len(parts) |-> IF k = 1 THEN parts[k] ELSE <<" ">> \o parts[k]])

\* lines 41-46: some keyword of the entry occurs in the query
KeywordHit(meta, query_norm) ==
    LET kws == normalize_keywords(meta.keywords)
    IN \E k \in 1..Len(kws) : kws[k] # <<>> /\ IsSubstring(kws[k], query_norm)

RECURSIVE HitsFrom(_, _, _, _)
HitsFrom(metadatas, query_norm, idx, hit_indices) ==
    IF idx > Len(metadatas) THEN hit_indices
    ELSE IF KeywordHit(metadatas[idx], query_norm)
         THEN HitsFrom(metadatas, query_norm, idx + 1, Append(hit_indices, idx))
         ELSE HitsFrom(metadatas, query_norm, idx + 1, hit_indices)

\* keyword_match falling back to every entry when no keyword hits
keyword_match_or_all(user_query, metadatas) ==
    IF ~Truthy(user_query) THEN <<>>
    ELSE LET query_norm == JoinSpaces(normalize_keywords(<<user_query>>))
             hits == HitsFrom(metadatas, query_norm, 1, <<>>)
         IN IF hits = <<>> THEN [k \in 1..Len(metadatas) |-> k] ELSE hits

\* _keyword_match: the positions of the entries a keyword of which hits
keyword_match(user_query, metadatas) ==
    IF ~Truthy(user_query) THEN <<>>
    ELSE LET query_norm == JoinSpaces(normalize_keywords(<<user_query>>))
         IN IF query_norm = <<>> THEN <<>>
            ELSE HitsFrom(metadatas, query_norm, 1, <<>>)

\* top_k of query_faq_chroma
TopK == 3

\* np.argsort(sims)[:k], the least similar first
argsort_ascending(sims, k) ==
    {top_idx \in [1..k -> 1..Len(sims)] :
        /\ \A i, j \in 1..k : top_idx[i] = top_idx[j] => i = j
        /\ \A i, j \in 1..k : i < j => sims[top_idx[i]] <= sims[top_idx[j]]
        /\ \A c \in 1..Len(sims) :
              (\A i \in 1..k : top_idx[i] # c) => \A i \in 1..k : sims[c] >= sims[top_idx[i]]}

\* np.argsort(-sims)[:k]: the first k positions of an ordering of the
\* candidates by falling similarity; the sort is not stable, so equal
\* similarities come in either order
argsort_descending(sims, k) ==
    {top_idx \in [1..k -> 1..Len(sims)] :
        /\ \A i, j \in 1..k : top_idx[i] = top_idx[j] => i = j
        /\ \A i, j \in 1..k : i < j => sims[top_idx[i]] >= sims[top_idx[j]]
        /\ \A c \in 1..Len(sims) :
              (\A i \in 1..k : top_idx[i] # c) => \A i \in 1..k : sims[c] <= sims[top_idx[i]]}

\* lines 54-61: the matches with a question and an answer
FaqContext(matches) ==
    SelectSeq(matches, LAMBDA mt : Strip(mt.question) # <<>> /\ Strip(mt.answer) # <<>>)

FaqCall(name, arg) == [fn |-> name, arg |-> arg]

NewFaqQuery(query, corpus) ==
    [pc |-> "start", query |-> query, corpus |-> corpus, hit_indices |-> <<>>,
     sims |-> <<>>, matches |-> <<>>, calls |-> <<>>, result |-> None, outcome |-> "running"]

FaqReturn(r, result) == [r EXCEPT !.pc = "done", !.result = result, !.outcome = "returned"]

FaqRaise(r) == [r EXCEPT !.pc = "done", !.outcome = "raised"]

\* lines 102-104
FaqBegin(r) ==
    LET raw_query == Strip(IF r.query = None THEN <<>> ELSE r.query)
    IN IF raw_query = <<>> THEN FaqReturn(r, None) ELSE [r EXCEPT !.pc = "get"]

\* lines 106-120: collection.get and the keyword pre-filter
FaqFetch(r, out) ==
    LET called == [r EXCEPT !.calls = Append(@, FaqCall("collection.get", <<>>))]
    IN IF out = Fault THEN FaqRaise(called)
       ELSE IF r.corpus = <<>> THEN FaqReturn(called, None)
       ELSE LET hit_indices == keyword_match(r.query, r.corpus)
            IN IF hit_indices = <<>> THEN FaqReturn(called, None)
               ELSE [called EXCEPT !.hit_indices = hit_indices, !.pc = "embed"]

\* What the two embedder.encode calls come to: a fault in the first or in
\* the second, or the similarities of the hits and their ranking
EncodeFault(call) == [fault |-> call]
Ranked(sims, top_idx) == [sims |-> sims, top_idx |-> top_idx]

\* lines 123-155: the two embedding calls and the ranking of the hits
FaqRank(r, out) ==
    LET first == [r EXCEPT !.calls = Append(@, FaqCall("embedder.encode", <<r.query>>))]
        subset_docs == [k \in 1..Len(r.hit_indices) |-> r.corpus[r.hit_indices[k]].question]
        second == [first EXCEPT !.calls = Append(@, FaqCall("embedder.encode", subset_docs))]
    IN IF out = EncodeFault("query") THEN FaqRaise(first)
       ELSE IF out = EncodeFault("docs") THEN FaqRaise(second)
       ELSE LET subset_metas == [k \in 1..Len(r.hit_indices) |-> r.corpus[r.hit_indices[k]]]
                matches == [k \in 1..Len(out.top_idx) |->
                              [question |-> subset_metas[out.top_idx[k]].question,
                               answer |-> subset_metas[out.top_idx[k]].answer,
                               score |-> out.sims[out.top_idx[k]]]]
            IN IF matches = <<>> THEN FaqReturn([second EXCEPT !.sims = out.sims], None)
               ELSE [second EXCEPT !.sims = out.sims, !.matches = matches, !.pc = "synth"]

\* lines 157-161 and _synthesize_answer
FaqSynthesize(r, out) ==
    LET prompt == <<Lit("faq_synth_prompt"), Val(FaqContext(r.matches)), Val(r.query)>>
        called == [r EXCEPT !.calls = Append(@,
                      [fn |-> "generate_with_single_input", arg |-> prompt, temperature |-> "0.2"])]
    IN IF out = Fault THEN FaqRaise(called) ELSE FaqReturn(called, out)

MaxFaqQueryLen == 2

MaxSimilarity == 3

\* cosine similarities, on a scale of MaxSimilarity levels
Similarities == 1..MaxSimilarity

MaxCorpusLen == 2

FaqQueries == {None} \cup SeqsUpTo({"t", "T", "h", " "}, MaxFaqQueryLen)

\* the keywords of an entry as create_chromadb_faq_collection.py stores
\* them: stripped and not blank
KeywordLists == { <<>>, << <<"t">> >>, << <<"e">>, <<"T", "h">> >>, << <<"h", " ", "t">> >> }

FaqEntries ==
    {[question |-> <<"Q">>, answer |-> a, keywords |-> kws] : a \in {<<>>, <<"A">>}, kws \in KeywordLists}

Corpora == SeqsUpTo(FaqEntries, MaxCorpusLen)

FaqInit ==
    /\ \E q \in FaqQueries, c \in Corpora : app = NewFaqQuery(q, c)
    /\ Idles

FaqCheckQuery ==
    /\ app.pc = "start"
    /\ app' = FaqBegin(app)
    /\ UNCHANGED <<run, run2, rel, srv>>

FaqKeywordFilter ==
    /\ app.pc = "get"
    /\ \E out \in {Fault, <<"o", "k">>} : app' = FaqFetch(app, out)
    /\ UNCHANGED <<run, run2, rel, srv>>

FaqSemanticRank ==
    /\ app.pc = "embed"
    /\ \/ \E out \in {EncodeFault("query"), EncodeFault("docs")} : app' = FaqRank(app, out)
       \/ \E sims \in [1..Len(app.hit_indices) -> Similarities] :
             \E top_idx \in argsort_descending(sims, Min2(TopK, Len(sims))) :
                app' = FaqRank(app, Ranked(sims, top_idx))
    /\ UNCHANGED <<run, run2, rel, srv>>

FaqAnswer ==
    /\ app.pc = "synth"
    /\ \E out \in GenOutcomes : app' = FaqSynthesize(app, out)
    /\ UNCHANGED <<run, run2, rel, srv>>

FaqNext ==
    \/ FaqCheckQuery
    \/ FaqKeywordFilter
    \/ FaqSemanticRank
    \/ FaqAnswer

SpecFaq == FaqInit /\ [][FaqNext]_vars

\* The query is None, empty or blank
FaqQueryEmpty == app.query = None \/ Strip(app.query) = <<>>

\* No entry has a keyword whose lowercase form occurs in the lowercase query
NoKeywordOverlap ==
    \A e \in 1..Len(app.corpus) : \A k \in 1..Len(app.corpus[e].keywords) :
        ~IsSubstring(Lower(app.corpus[e].keywords[k]), Lower(app.query))

FaqCalled(name) == \E k \in 1..Len(app.calls) : app.calls[k].fn = name

\* C17: when the query is empty, the corpus is empty or no keyword of any
\* entry occurs in the query, the retriever calls neither the embedding nor
\* the generation service and, the index having answered, reports no match
C17_NoKeywordNoMatch ==
    (FaqQueryEmpty \/ app.corpus = <<>> \/ NoKeywordOverlap) =>
        /\ ~FaqCalled("embedder.encode")
        /\ ~FaqCalled("generate_with_single_input")
        /\ (app.pc = "done" /\ app.outcome = "returned") => app.result = None

\* A query met a corpus with keywords none of which it holds, and the
\* retriever reported no match after the one index read
C17_Witness ==
    /\ ~FaqQueryEmpty
    /\ app.corpus # <<>>
    /\ \E e \in 1..Len(app.corpus) : app.corpus[e].keywords # <<>>
    /\ NoKeywordOverlap
    /\ app.pc = "done" /\ app.outcome = "returned" /\ app.result = None
    /\ Len(app.calls) = 1

-----------------------------------------------------------------------------
(* The label the Task Classifier hands to the orchestrator *)

\* C20: get_query_type returns the generation service's answer with the
\* surrounding whitespace trimmed, so an answer that is PRODUCT within
\* whitespace or before a line break takes the request to the product
\* engine as the bare label does
C20_ClassifierTrimsLabel ==
    (Called(run, "get_query_type") /\ Entry(run, "get_query_type").out # Fault) =>
        LET response == Entry(run, "get_query_type").out
        IN /\ run.label = Strip(response)
           /\ Strip(response) = PRODUCT =>
                  /\ run.pc # "fallthrough"
                  /\ ~Called(run, "generate_fall_through")

-----------------------------------------------------------------------------
(* Cross-origin headers of the HTTP server (src/chat_server.py) *)

\* os.environ.get("FLASK_MANAGE_CORS", "false")
EnvGet(value) == IF value = None THEN <<"f", "a", "l", "s", "e">> ELSE value

\* line 24: _flask_manage_cors
flask_manage_cors(value) ==
    Strip(Lower(EnvGet(value))) \in {<<"1">>, <<"t", "r", "u", "e">>, <<"y", "e", "s">>}

\* line 28: _allowed_origins
AllowedOrigins == {"http://localhost:8002"}

\* request.headers.get("Origin", "") of a request without the header
NoOrigin == ""

\* lines 26-67: which code adds the headers once the module is imported
CorsMode(value, flask_cors_installed) ==
    IF ~flask_manage_cors(value) THEN "none"
    ELSE IF flask_cors_installed THEN "flask_cors"
    ELSE "manual"

\* add_cors_headers, lines 48-65: the Access-Control-Allow-Origin headers
\* of the response
add_cors_headers(origin) ==
    IF "*" \in AllowedOrigins THEN <<"*">>
    ELSE IF origin # NoOrigin /\ origin \in AllowedOrigins THEN <<origin>>
    ELSE <<>>

\* What CORS(app, origins=list(_allowed_origins), ...) of lines 35-44 may add:
\* the request's origin when it is an allowed one, nothing for another
\* origin; for a request without Origin the library decides
FlaskCorsHeaders(origin) ==
    IF "*" \in AllowedOrigins THEN {<<"*">>}
    ELSE IF origin = NoOrigin THEN {<<>>} \cup {<<o>> : o \in AllowedOrigins}
    ELSE IF origin \in AllowedOrigins THEN {<<origin>>}
    ELSE {<<>>}

\* values of FLASK_MANAGE_CORS in the environment; None when unset
EnvValues ==
    {None, <<>>, <<"1">>, <<"0">>, <<"t", "r", "u", "e">>, <<"T", "r", "u", "e">>,
     <<" ", "T", "R", "U", "E", "\n">>, <<"y", "e", "s">>, <<"f", "a", "l", "s", "e">>,
     <<"n", "o">>, <<"o", "n">>}

Methods == {"GET", "POST", "OPTIONS"}

Origins == {NoOrigin, "http://localhost:8002", "http://localhost:8003"}

CorsInit ==
    /\ \E v \in EnvValues, installed \in BOOLEAN :
          app = [pc |-> "import", env |-> v, flask_cors_installed |-> installed, mode |-> "none",
                 method |-> "GET", origin |-> NoOrigin, acao |-> <<>>]
    /\ Idles

\* the module-level code of chat_server.py
ImportChatServer ==
    /\ app.pc = "import"
    /\ app' = [app EXCEPT !.pc = "serving", !.mode = CorsMode(app.env, app.flask_cors_installed)]
    /\ UNCHANGED <<run, run2, rel, srv>>

\* one request to "/" and the headers of its response; home() adds none
ServeRequest ==
    /\ app.pc = "serving"
    /\ \E method \in Methods, origin \in Origins :
       \E acao \in (IF app.mode = "flask_cors" THEN FlaskCorsHeaders(origin)
                    ELSE IF app.mode = "manual" THEN {add_cors_headers(origin)}
                    ELSE {<<>>}) :
          app' = [app EXCEPT !.pc = "responded", !.method = method, !.origin = origin,
                             !.acao = acao]
    /\ UNCHANGED <<run, run2, rel, srv>>

CorsNext == ImportChatServer \/ ServeRequest

SpecCors == CorsInit /\ [][CorsNext]_vars

\* FLASK_MANAGE_CORS is set to one of 1, true, yes, whatever the case
CorsEnabled ==
    /\ app.env # None
    /\ Strip(Lower(app.env)) \in {<<"1">>, <<"t", "r", "u", "e">>, <<"y", "e", "s">>}

\* A response never has two Access-Control-Allow-Origin headers, and has
\* none when FLASK_MANAGE_CORS is unset or false
C19_NoDuplicateNoneUnmanaged ==
    app.pc = "responded" =>
        /\ Len(app.acao) <= 1
        /\ ~CorsEnabled => app.acao = <<>>

\* C19: with FLASK_MANAGE_CORS enabled a GET or OPTIONS response has exactly
\* one Access-Control-Allow-Origin header, with value "*"; with it unset or
\* false the response has none; no response has two
C19_CorsHeader ==
    app.pc = "responded" =>
        /\ (CorsEnabled /\ app.method \in {"GET", "OPTIONS"}) => app.acao = <<"*">>
        /\ ~CorsEnabled => app.acao = <<>>
        /\ Len(app.acao) <= 1

-----------------------------------------------------------------------------
(* Requests served concurrently by one process (src/chat_server.py,
   src/llm_utils.py): app.run serves each request in a thread of its own,
   and the client's handles are module globals *)

Clients == {"a.com", "b.com"}

\* the requests in flight
Requests == {1, 2}

\* the globals before the first request
Unset == "unset"

\* One request: where it is in home(), the client it named, and the owner
\* of every handle or path it has read
NewThread(client_site) == [pc |-> "set_client_name", client_site |-> client_site, seen |-> <<>>]

Seen(kind, owner) == [kind |-> kind, owner |-> owner]

ServerInit ==
    /\ \E sites \in [Requests -> Clients] :
          srv = [pc |-> "serving", client_name |-> Unset, chroma_db_client |-> Unset,
                 faq_collection |-> Unset, products_collection |-> Unset,
                 threads |-> [t \in Requests |-> NewThread(sites[t])]]
    /\ run = Idle
    /\ run2 = Idle
    /\ RelIdle
    /\ AppIdle

\* The step of request t that moves it to pc `next` with the globals `g`
Step(t, next, g) == [g EXCEPT !.threads[t].pc = next]

\* llm_utils.py:38: _CLIENT_NAME = client_name.strip()
SetClientName(t) ==
    /\ srv.pc = "serving" /\ srv.threads[t].pc = "set_client_name"
    /\ srv' = Step(t, "set_chroma_db_client", [srv EXCEPT !.client_name = srv.threads[t].client_site])
    /\ UNCHANGED <<run, run2, rel, app>>

\* set_chroma_db_client: the database under the path of the current
\* _CLIENT_NAME
SetChromaDbClient(t) ==
    /\ srv.pc = "serving" /\ srv.threads[t].pc = "set_chroma_db_client"
    /\ srv' = Step(t, "set_faq_collection", [srv EXCEPT !.chroma_db_client = srv.client_name])
    /\ UNCHANGED <<run, run2, rel, app>>

\* set_faq_collection: the "faq" collection of the current _CHROMA_DB_CLIENT
SetFaqCollection(t) ==
    /\ srv.pc = "serving" /\ srv.threads[t].pc = "set_faq_collection"
    /\ srv' = Step(t, "set_products_collection", [srv EXCEPT !.faq_collection = srv.chroma_db_client])
    /\ UNCHANGED <<run, run2, rel, app>>

\* set_products_collection, after the two embedders, which are built from
\* a fixed model name and belong to no client
SetProductsCollection(t) ==
    /\ srv.pc = "serving" /\ srv.threads[t].pc = "set_products_collection"
    /\ srv' = Step(t, "query_faq", [srv EXCEPT !.products_collection = srv.chroma_db_client])
    /\ UNCHANGED <<run, run2, rel, app>>

\* do_execute_prompt reads the FAQ collection (query_faq_chroma.py:106)
ReadFaqCollection(t) ==
    /\ srv.pc = "serving" /\ srv.threads[t].pc = "query_faq"
    /\ srv' = Step(t, "read_prompts",
                   [srv EXCEPT !.threads[t].seen = Append(@, Seen("faq_collection", srv.faq_collection))])
    /\ UNCHANGED <<run, run2, rel, app>>

\* do_execute_prompt reads a file under get_client_system_prompts_path()
ReadClientPath(t) ==
    /\ srv.pc = "serving" /\ srv.threads[t].pc = "read_prompts"
    /\ srv' = Step(t, "query_products",
                   [srv EXCEPT !.threads[t].seen = Append(@, Seen("client_path", srv.client_name))])
    /\ UNCHANGED <<run, run2, rel, app>>

\* do_execute_prompt reads the products collection (query_products.py:98)
ReadProductsCollection(t) ==
    /\ srv.pc = "serving" /\ srv.threads[t].pc = "query_products"
    /\ srv' = Step(t, "done",
                   [srv EXCEPT !.threads[t].seen = Append(@, Seen("products_collection", srv.products_collection))])
    /\ UNCHANGED <<run, run2, rel, app>>

ServerNext ==
    \E t \in Requests :
        \/ SetClientName(t)
        \/ SetChromaDbClient(t)
        \/ SetFaqCollection(t)
        \/ SetProductsCollection(t)
        \/ ReadFaqCollection(t)
        \/ ReadClientPath(t)
        \/ ReadProductsCollection(t)

SpecServer == ServerInit /\ [][ServerNext]_vars

\* Request t is inside set_client_name
Switching(t) ==
    srv.threads[t].pc \in {"set_chroma_db_client", "set_faq_collection", "set_products_collection"}

\* Request t is inside do_execute_prompt
Executing(t) == srv.threads[t].pc \in {"query_faq", "read_prompts", "query_products"}

\* C18: every handle and configuration path a request reads belongs to the
\* client the request named, and no request switches the client while
\* another one is executing do_execute_prompt
C18_ClientIsolation ==
    /\ \A t \in Requests : \A k \in 1..Len(srv.threads[t].seen) :
          srv.threads[t].seen[k].owner = srv.threads[t].client_site
    /\ \A t, u \in Requests : t # u => ~(Switching(t) /\ Executing(u))

\* The same for requests that all name one client
C18_SameClientIsolation ==
    (\A t, u \in Requests : srv.threads[t].client_site = srv.threads[u].client_site) =>
        \A t \in Requests : \A k \in 1..Len(srv.threads[t].seen) :
            srv.threads[t].seen[k].owner \in {srv.threads[t].client_site, Unset}

-----------------------------------------------------------------------------
(* More properties of the product retrieval *)

\* The Filter Spec is null or empty, or none of its triples gives a clause
FilterSpecVoid ==
    /\ rel.pc \notin {"filters", "raised"}
    /\ NoFilters(rel.filters) \/ ClausesFrom(rel.filters.items, 1, <<>>) = <<>>

\* C21: when the Filter Spec is null, empty or gives no valid clause, the
\* retrieval issues exactly one index query, with the filter argument
\* omitted and 20 results asked for, and returns its results at once
C21_NoFilterOneQuery ==
    FilterSpecVoid =>
        /\ rel.pc \in {"semantic", "done"}
        /\ Len(rel.queries) <= 1
        /\ \A k \in 1..Len(rel.queries) :
              /\ rel.queries[k].where = WhereNone
              /\ rel.queries[k].limit = 20
        /\ rel.pc = "done" => (Len(rel.queries) = 1 /\ rel.returned = rel.queries[1])

\* The generation service answered null, and the one unfiltered query's
\* 4 results were returned
C21_Witness ==
    /\ FilterSpecVoid
    /\ rel.generated = JNull
    /\ rel.pc = "done"
    /\ Len(rel.queries) = 1
    /\ rel.queries[1].where = WhereNone
    /\ rel.returned = rel.queries[1] /\ rel.returned.n = 4

-----------------------------------------------------------------------------
(* _build_chroma_where_from_filters applied on its own *)

MaxFilters == 3

\* Filter triples: well-formed ones, and ones with the field or the operator
\* absent, an empty field, an unknown operator, a scalar under "in"
FilterTriples ==
    { Filter("category", "in", Items(<<"jacket">>)),
      Filter("season", "in", Num(2)),
      Filter("price", ">", Num(1)),
      Filter("price", "<", Num(3)),
      Filter(Missing, "in", Items(<<"jacket">>)),
      Filter("", "<", Num(3)),
      Filter("season", Missing, Items(<<"winter">>)),
      Filter("price", "=", Num(3)) }

FilterLists == {JNull} \cup {JList(l) : l \in SeqsUpTo(FilterTriples, MaxFilters)}

WhereInit ==
    /\ \E f \in FilterLists : app = [pc |-> "call", filters |-> f, result |-> WhereNone]
    /\ Idles

BuildWhere ==
    /\ app.pc = "call"
    /\ app' = [app EXCEPT !.pc = "done", !.result = build_chroma_where_from_filters(app.filters)]
    /\ UNCHANGED <<run, run2, rel, srv>>

SpecWhere == WhereInit /\ [][BuildWhere]_vars

\* A triple that names a field and one of the three operators
ValidTriple(f) == f.field \notin {Missing, ""} /\ f.operator \in {">", "<", "in"}

\* The clause a valid triple stands for
ClauseOf(f) ==
    CASE f.operator = ">" -> Clause(f.field, "$gt", f.value)
      [] f.operator = "<" -> Clause(f.field, "$lt", f.value)
      [] f.operator = "in" ->
            Clause(f.field, "$in", IF "items" \in DOMAIN f.value THEN f.value ELSE Items(<<f.value>>))

\* The clauses of the valid triples of a list, in the list's order
ClausesOf(filters) ==
    IF filters = JNull THEN <<>>
    ELSE LET kept == SelectSeq(filters.items, ValidTriple)
         IN [k \in 1..Len(kept) |-> ClauseOf(kept[k])]

C22_WitnessBare ==
    /\ app.pc = "done" /\ "filters" \in DOMAIN app
    /\ app.filters = JList(<<Filter("", "<", Num(3)), Filter("season", "in", Num(2))>>)
    /\ app.result = WhereClause(Clause("season", "$in", Items(<<Num(2)>>)))

-----------------------------------------------------------------------------
(* The whitelist of the Filter Spec generator *)

\* The generator has run and returned a list of filters
FilterSpecMade == app.pc = "done" /\ "valid_keys" \in DOMAIN app /\ app.result.t = "list"

\* The entries of the parsed answer that give a categorical filter: the key
\* is a line of filter_on_list.txt, not the price, and the value is no
\* empty list
CategoricalKept(generated, valid_keys) ==
    SelectSeq(generated.entries,
              LAMBDA e : /\ Contains(valid_keys, e.key)
                         /\ e.key # "price"
                         /\ e.value # JList(<<>>))

\* C23: every filter of the Filter Spec names a line of filter_on_list.txt
\* and every "in" filter has a non-empty value list; the entries with another
\* key or an empty list are dropped, one "in" filter being made for each of
\* the others, and dropping them raises nothing
C23_WhitelistedNonEmpty ==
    /\ FilterSpecMade =>
          /\ \A k \in 1..Len(app.result.items) :
                /\ Contains(app.valid_keys, app.result.items[k].field)
                /\ app.result.items[k].operator = "in" =>
                      Len(app.result.items[k].value.items) > 0
          /\ LET kept == CategoricalKept(app.generated, app.valid_keys)
                 made == SelectSeq(app.result.items, LAMBDA f : f.operator = "in")
             IN /\ Len(made) = Len(kept)
                /\ \A k \in 1..Len(kept) : made[k].field = kept[k].key
    /\ (app.pc = "done" /\ "valid_keys" \in DOMAIN app /\ ~Contains(app.valid_keys, "price"))
          => app.result # Raised

\* An answer with a brand, an empty category list, a season and a price
\* range, brand being no line of filter_on_list.txt: the Filter Spec has the
\* price pair alone
C23_Witness ==
    /\ FilterSpecMade
    /\ app.valid_keys = <<"price", "category">>
    /\ app.generated = JObject(<<Item("brand", JList(<<"acme">>)), Item("category", JList(<<>>)),
                                 Item("season", JStr("winter")),
                                 Item("price", JDict(JNum(1), JNum(3)))>>)
    /\ app.result = JList(<<Filter("price", ">", Num(1)), Filter("price", "<", Num(3))>>)

-----------------------------------------------------------------------------
(* parse_json_output (src/llm_utils.py) and the answers of the generation
   service to the structured-filter prompt *)

\* str.replace(old, "") for a one-character old
Remove(s, old) == SelectSeq(s, LAMBDA c : c # old)

RECURSIVE ReplacePair(_, _)
\* str.replace(c + c, c): left to right, without overlap
ReplacePair(s, c) ==
    IF Len(s) < 2 THEN s
    ELSE IF s[1] = c /\ s[2] = c THEN <<c>> \o ReplacePair(SubSeq(s, 3, Len(s)), c)
    ELSE <<s[1]>> \o ReplacePair(Tail(s), c)

\* line 339: newlines and single quotes removed, doubled braces made single
CleanOutput(llm_output) ==
    ReplacePair(ReplacePair(Remove(Remove(llm_output, "\n"), "'"), "}"), "{")

\* json.JSONDecodeError
DecodeError == [t |-> "decode error"]

RECURSIVE DigitsValue(_)
DigitsValue(s) == IF Len(s) = 1 THEN 7 ELSE 10 * DigitsValue(SubSeq(s, 1, Len(s) - 1)) + 7

RECURSIVE json_loads(_)
\* json.loads on a text of braces, brackets, the digit 7 and the letters of
\* null: a number, null, {}, [] or a list of one value; anything else is no
\* JSON
json_loads(s) ==
    IF s # <<>> /\ \A k \in 1..Len(s) : s[k] = "7" THEN JNum(DigitsValue(s))
    ELSE IF s = <<"n", "u", "l", "l">> THEN JNull
    ELSE IF s = <<"{", "}">> THEN JObject(<<>>)
    ELSE IF s = <<"[", "]">> THEN JList(<<>>)
    ELSE IF Len(s) > 2 /\ s[1] = "[" /\ s[Len(s)] = "]"
         THEN LET inner == json_loads(SubSeq(s, 2, Len(s) - 1))
              IN IF inner = DecodeError THEN DecodeError ELSE JList(<<inner>>)
    ELSE DecodeError

\* parse_json_output: only the JSONDecodeError is caught
parse_json_output(llm_output) ==
    LET parsed_json == json_loads(CleanOutput(llm_output))
    IN IF parsed_json = DecodeError THEN JObject(<<>>) ELSE parsed_json

MaxOutputLen == 4

\* what the generation service may answer
LlmOutputs == SeqsUpTo({"{", "}", "[", "]", "7", "n", "u", "l", "'", "\n"}, MaxOutputLen)

ParseInit ==
    /\ \E o \in LlmOutputs :
          app = [pc |-> "call", llm_output |-> o,
                 retrieval |-> NewRetrieval(<<"price", "category">>, JNull)]
    /\ Idles

\* metadata_filters.py:41 and query_products.py:82-85: the answer is parsed,
\* the Filter Spec generated from it and the base where clause built
PrepareFromOutput ==
    /\ app.pc = "call"
    /\ app' = [app EXCEPT !.pc = "done",
                          !.retrieval = Prepare([app.retrieval EXCEPT
                                                    !.generated = parse_json_output(app.llm_output)])]
    /\ UNCHANGED <<run, run2, rel, srv>>

SpecParse == ParseInit /\ [][PrepareFromOutput]_vars

\* The answer has been handled
OutputHandled == app.pc = "done" /\ "llm_output" \in DOMAIN app

\* The answer is the text of a JSON object
IsJsonObject(llm_output) == llm_output \in {<<"{", "}">>}

\* C24: an answer of the generation service that is no parseable JSON object
\* of the expected shape raises nothing in the Filter Spec generator or the
\* product engine: there is no filter, and the engine goes on to the
\* unfiltered semantic search
C24_MalformedDegrades ==
    (OutputHandled /\ ~IsJsonObject(app.llm_output)) =>
        /\ app.retrieval.pc = "semantic"
        /\ NoFilters(app.retrieval.filters)

\* What holds: an answer that json.loads rejects, and the answer null, give
\* no filter and the semantic search
C24_UnparseableDegrades ==
    (OutputHandled /\ json_loads(CleanOutput(app.llm_output)) \in {DecodeError, JNull}) =>
        /\ app.retrieval.pc = "semantic"
        /\ NoFilters(app.retrieval.filters)

\* The answer "[]" parses to a list, and the generator raises on its .items()
C24_ListRaises ==
    /\ OutputHandled
    /\ app.llm_output = <<"[", "]">>
    /\ app.retrieval.pc = "raised"

-----------------------------------------------------------------------------
(* The corrector's choice of a replacement *)

RECURSIVE EditDistance(_, _)
\* The Levenshtein distance, by its recurrence
EditDistance(a, b) ==
    IF a = <<>> THEN Len(b)
    ELSE IF b = <<>> THEN Len(a)
    ELSE Min2(EditDistance(Tail(a), b) + 1,
              Min2(EditDistance(a, Tail(b)) + 1,
                   EditDistance(Tail(a), Tail(b)) + (IF Head(a) # Head(b) THEN 1 ELSE 0)))

DictionaryWords == {Dictionary[k] : k \in 1..Len(Dictionary)}

\* The dictionary words within distance 2 of a word
Near(word) == {w \in DictionaryWords : EditDistance(word, w) <= 2}

\* fix_string has run on a text that is one alphabetic token whose lowercase
\* form is no dictionary word
MisspeltToken ==
    /\ app.pc = "done" /\ "text" \in DOMAIN app
    /\ IsAlphaStr(app.text)
    /\ ~InDictionary(Lower(app.text))

\* C25: an alphabetic token whose lowercase form is not in the dictionary is
\* replaced exactly when some dictionary word is within Levenshtein distance
\* 2 of it, the replacement then being a dictionary word at the least
\* distance over the whole dictionary; otherwise it is left unchanged
C25_NearestWithinTwo ==
    MisspeltToken =>
        LET near == Near(Lower(app.text))
        IN /\ near = {} => app.result = app.text
           /\ near # {} =>
                 /\ app.result # app.text
                 /\ Lower(app.result) \in near
                 /\ \A w \in DictionaryWords :
                       EditDistance(Lower(app.text), Lower(app.result))
                          <= EditDistance(Lower(app.text), w)

\* "ee" is at distance 2 of "the" and at distance 1 of "tee": it becomes "tee"
C25_Witness ==
    /\ MisspeltToken
    /\ app.text = <<"e", "e">>
    /\ EditDistance(app.text, <<"t", "h", "e">>) = 2
    /\ app.result = <<"t", "e", "e">>

\* "ett" is at distance 3 of every dictionary word and stays
C25_WitnessFar ==
    /\ MisspeltToken
    /\ Near(Lower(app.text)) = {}
    /\ app.result = app.text

\* "t" is two edits from "the"; "teeth", four letters longer, is not compared
C25_WitnessSkip ==
    /\ MisspeltToken
    /\ app.text = <<"t">>
    /\ app.result = <<"t", "h", "e">>

\* fix_string has replaced a token that is the whole text
TokenReplaced == MisspeltToken /\ app.result # app.text

\* The case patterns of a token of letters
AllUppercase(token) == \A i \in 1..Len(token) : token[i] \in Uppers
FirstUpperRestLower(token) ==
    /\ Len(token) >= 2
    /\ token[1] \in Uppers
    /\ \A i \in 2..Len(token) : token[i] \in Lowers

\* C26: a replacement has the case pattern of the token it replaces: all
\* uppercase for an all-uppercase token, capitalised for a token with an
\* uppercase first letter followed by lowercase letters, and all lowercase
\* for every other token
C26_CasePattern ==
    TokenReplaced =>
        LET replacement == app.result
        IN IF AllUppercase(app.text)
           THEN \A i \in 1..Len(replacement) : replacement[i] \notin Lowers
           ELSE IF FirstUpperRestLower(app.text)
           THEN /\ replacement[1] \in Uppers
                /\ \A i \in 2..Len(replacement) : replacement[i] \notin Uppers
           ELSE \A i \in 1..Len(replacement) : replacement[i] \notin Uppers

\* "Te" became "The"
C26_Witness ==
    /\ TokenReplaced
    /\ app.text = <<"T", "e">>
    /\ app.result = <<"T", "h", "e">>

\* "TE" became "THE", and "tE" became "the"
C26_WitnessUpper ==
    /\ TokenReplaced
    /\ app.text = <<"T", "E">>
    /\ app.result = <<"T", "H", "E">>

C26_WitnessMixed ==
    /\ TokenReplaced
    /\ app.text = <<"t", "E">>
    /\ app.result = <<"t", "h", "e">>

-----------------------------------------------------------------------------
(* The ranking of the FAQ retriever, on corpora that exceed top_k *)

MaxRankCorpusLen == 4

\* the questions of the entries, by position
Questions == << <<"A">>, <<"B">>, <<"C">>, <<"D">>, <<"E">>, <<"F">> >>

\* corpora of entries with different questions, each with the keyword "t" or
\* the keyword "h"
RankCorpora ==
    UNION {[1..n -> {[question |-> Questions[i], answer |-> <<"A">>, keywords |-> << <<kw>> >>]
                        : i \in 1..n, kw \in {"t", "h"}}]
              : n \in (MaxRankCorpusLen - 1)..MaxRankCorpusLen}

FaqRankInit ==
    /\ \E c \in RankCorpora :
          /\ \A i \in 1..Len(c) : c[i].question = Questions[i]
          /\ app = NewFaqQuery(<<"t">>, c)
    /\ Idles

SpecFaqRank == FaqRankInit /\ [][FaqNext]_vars

\* The entries that pass the keyword pre-filter, by position in the corpus
Candidates ==
    {e \in 1..Len(app.corpus) :
        \E k \in 1..Len(app.corpus[e].keywords) :
            IsSubstring(Lower(app.corpus[e].keywords[k]), Lower(app.query))}

\* The entry a match was built from
EntryOf(match) == CHOOSE e \in 1..Len(app.corpus) : app.corpus[e].question = match.question

\* The similarity computed for a candidate: the candidates were embedded in
\* the order of the corpus
SimilarityOf(e) == app.sims[Cardinality({c \in Candidates : c <= e})]

\* The ranking has been made and handed to the synthesis
MatchesMade ==
    /\ "matches" \in DOMAIN app
    /\ app.matches # <<>>
    /\ \A i \in 1..Len(app.corpus) : app.corpus[i].question = Questions[i]

\* C27: the matches handed to the synthesis are the min(top_k, number of
\* keyword candidates) candidates of the highest similarity, in falling
\* order of similarity, and none of them failed the keyword pre-filter
C27_TopKBySimilarity ==
    MatchesMade =>
        LET matched == {EntryOf(app.matches[i]) : i \in 1..Len(app.matches)}
        IN /\ Len(app.matches) = Min2(TopK, Cardinality(Candidates))
           /\ Cardinality(matched) = Len(app.matches)
           /\ matched \subseteq Candidates
           /\ \A i \in 1..Len(app.matches) :
                 app.matches[i].score = SimilarityOf(EntryOf(app.matches[i]))
           /\ \A i, j \in 1..Len(app.matches) :
                 i < j => app.matches[i].score >= app.matches[j].score
           /\ \A c \in Candidates \ matched :
                 \A i \in 1..Len(app.matches) : SimilarityOf(c) <= app.matches[i].score

\* Three candidates with similarities 3, 1 and 2 beside an entry that failed
\* the pre-filter: the matches are the first, the third and the second
C27_Witness ==
    /\ MatchesMade
    /\ Len(app.corpus) = 4
    /\ Candidates = {1, 2, 4}
    /\ app.sims = <<3, 1, 2>>
    /\ [i \in 1..Len(app.matches) |-> EntryOf(app.matches[i])] = <<1, 4, 2>>

\* Four candidates: the least similar one is left out
C27_WitnessTruncated ==
    /\ MatchesMade
    /\ Candidates = {1, 2, 3, 4}
    /\ app.sims = <<1, 3, 2, 3>>
    /\ Len(app.matches) = 3
    /\ {EntryOf(app.matches[i]) : i \in 1..Len(app.matches)} = {2, 3, 4}

-----------------------------------------------------------------------------
(* generate_items_context (src/query_products.py) *)

DigitChars == <<"0", "1", "2", "3", "4", "5", "6", "7", "8", "9">>

RECURSIVE Digits(_)
\* str() of a natural number
Digits(n) == IF n < 10 THEN <<DigitChars[n + 1]>> ELSE Digits(n \div 10) \o <<DigitChars[(n % 10) + 1]>>

\* the value as the f-string formats it
Str(value) == IF value.t = "str" THEN value.s ELSE Digits(value.n)

\* item.get(f, 'N/A')
ItemGet(item, f) == IF f \in DOMAIN item THEN Str(item[f]) ELSE <<"N", "/", "A">>

RECURSIVE FieldsText(_, _, _, _)
\* lines 183-184: t += f"{f}: {item.get(f, 'N/A')}. " for f in metadata_fields
FieldsText(item, metadata_fields, j, t) ==
    IF j > Len(metadata_fields) THEN t
    ELSE FieldsText(item, metadata_fields, j + 1,
                    t \o <<metadata_fields[j]>> \o <<":", " ">>
                      \o ItemGet(item, metadata_fields[j]) \o <<".", " ">>)

RECURSIVE AllFieldsText(_, _, _)
AllFieldsText(item, names, t) ==
    IF names = <<>> THEN t
    ELSE AllFieldsText(item, Tail(names),
                       IF Head(names) \in DOMAIN item
                       THEN t \o <<Head(names)>> \o <<":", " ">> \o Str(item[Head(names)]) \o <<".", " ">>
                       ELSE t)

RECURSIVE ItemsTextAllFields(_, _, _, _)
\* ItemsText writing every field the record has
ItemsTextAllFields(relevant_products, metadata_fields, k, t) ==
    IF k > Len(relevant_products) THEN t
    ELSE ItemsTextAllFields(relevant_products, metadata_fields, k + 1,
                            AllFieldsText(relevant_products[k].metadata, <<"n", "s", "c">>, t))

RECURSIVE ItemsText(_, _, _, _)
\* lines 179-184: the loop over the retrieved records
ItemsText(relevant_products, metadata_fields, k, t) ==
    IF k > Len(relevant_products) THEN t
    ELSE ItemsText(relevant_products, metadata_fields, k + 1,
                   FieldsText(relevant_products[k].metadata, metadata_fields, 1, t))

\* generate_items_context, given the lines of metadata_fields_list.txt
generate_items_context(relevant_products, metadata_fields) ==
    ItemsText(relevant_products, metadata_fields, 1, <<>>)

MaxProducts == 2

MaxFieldsLen == 2

\* the names in metadata_fields_list.txt; no record has a field "c"
FieldNames == {"n", "s", "c"}

MetadataValues == {JStr(<<"x">>), JNum(7)}

\* the metadata of a record: some of the fields "n" and "s"
Metadatas == UNION {[S -> MetadataValues] : S \in SUBSET {"n", "s"}}

Products == {[id |-> <<"p">>, metadata |-> meta] : meta \in Metadatas}

ContextInit ==
    /\ \E p \in SeqsUpTo(Products, MaxProducts), l \in SeqsUpTo(FieldNames, MaxFieldsLen) :
          app = [pc |-> "call", relevant_products |-> p, metadata_fields |-> l, result |-> <<>>]
    /\ Idles

GenerateItemsContext ==
    /\ app.pc = "call"
    /\ app' = [app EXCEPT !.pc = "done",
                          !.result = generate_items_context(app.relevant_products, app.metadata_fields)]
    /\ UNCHANGED <<run, run2, rel, srv>>

SpecContext == ContextInit /\ [][GenerateItemsContext]_vars

\* The context has been built
ContextBuilt == app.pc = "done" /\ "metadata_fields" \in DOMAIN app

\* The labelled entry of a field for a record
LabelledEntry(meta, f) ==
    <<f, ":", " ">> \o (IF f \in DOMAIN meta THEN Str(meta[f]) ELSE <<"N", "/", "A">>) \o <<".", " ">>

\* The entries of all records, record by record, each in the order of the
\* field list
ExpectedContext(relevant_products, metadata_fields) ==
    LET r == Len(relevant_products)
        f == Len(metadata_fields)
    IN Flatten([m \in 1..(r * f) |->
                   LabelledEntry(relevant_products[((m - 1) \div f) + 1].metadata,
                                 metadata_fields[((m - 1) % f) + 1])])

Listed(f) == Contains(app.metadata_fields, f)

\* The texts that listed fields of the records have as values
ListedValues ==
    UNION {{Str(app.relevant_products[k].metadata[f]) :
               f \in {g \in DOMAIN app.relevant_products[k].metadata : Listed(g)}}
              : k \in 1..Len(app.relevant_products)}

\* C28: the context holds, for each retrieved record in retrieval order, one
\* labelled entry for each line of the metadata-field list in list order,
\* with the placeholder N/A where the record lacks the field, and nothing
\* else: a record field that is not in the list appears neither by name nor
\* by value
C28_ContextListedFieldsOnly ==
    ContextBuilt =>
        /\ app.result = ExpectedContext(app.relevant_products, app.metadata_fields)
        /\ \A k \in 1..Len(app.relevant_products) :
              LET meta == app.relevant_products[k].metadata
              IN \A f \in DOMAIN meta :
                    ~Listed(f) =>
                        /\ ~IsSubstring(<<f>>, app.result)
                        /\ Str(meta[f]) \notin ListedValues => ~IsSubstring(Str(meta[f]), app.result)

\* Two records, the first with both fields and the second with neither, and
\* the list "n", "c": four entries, two with the placeholder, no "s" and no 7
C28_Witness ==
    /\ ContextBuilt
    /\ app.metadata_fields = <<"n", "c">>
    /\ Len(app.relevant_products) = 2
    /\ app.relevant_products[1].metadata = [f \in {"n", "s"} |-> IF f = "n" THEN JStr(<<"x">>) ELSE JNum(7)]
    /\ DOMAIN app.relevant_products[2].metadata = {}
    /\ app.result = <<"n", ":", " ", "x", ".", " ", "c", ":", " ", "N", "/", "A", ".", " ",
                      "n", ":", " ", "N", "/", "A", ".", " ", "c", ":", " ", "N", "/", "A", ".", " ">>

-----------------------------------------------------------------------------
(* The steps of the relaxation loop *)

\* The fields named after place i + 1 of the importance order, i counting
\* from 0: importance_order[i+1..n-1]
LessImportant(i) == {rel.filter_on_list[j] : j \in (i + 2)..Len(rel.filter_on_list)}

\* The filters of the Filter Spec whose field is not among them
KeptAt(i) == SelectSeq(rel.filters.items, LAMBDA f : f.field \notin LessImportant(i))

\* The where argument that a list of filters comes to at the index
WhereOf(filters) ==
    LET clauses == ClausesOf(JList(filters))
    IN IF Len(clauses) = 0 THEN WhereNone
       ELSE IF Len(clauses) = 1 THEN WhereClause(clauses[1])
       ELSE WhereAnd(clauses)

C29_WitnessUnfiltered ==
    /\ HasFilterSpec
    /\ \E k \in RelaxSteps : KeptAt(k - 2) = <<>> /\ rel.queries[k].where = WhereNone

-----------------------------------------------------------------------------
(* The retrieval when filter_on_list.txt is read anew for the importance
   order (query_products.py:132) and may have been rewritten since the
   Filter Spec generator read it (metadata_filters.py:69) *)

\* what the file may hold at the second read: any list of different fields
RereadLists ==
    {l \in FilterOnLists : \A i, j \in 1..Len(l) : l[i] = l[j] => i = j}

QueryFullReread ==
    /\ rel.pc = "full"
    /\ \E n \in ResultCounts, importance_order \in RereadLists :
          rel' = FullQuery([rel EXCEPT !.filter_on_list = importance_order], n)
    /\ UNCHANGED <<run, run2, app, srv>>

RereadNext ==
    \/ GenerateFilters
    \/ QuerySemantic
    \/ QueryFullReread
    \/ QueryRelaxed
    \/ QueryFallback

\* answers that give no Filter Spec, one with a clause on every field, and
\* one on which the generator raises
RereadGenerated ==
    { JNull,
      JObject(<<Item("category", JList(<<"jacket">>)), Item("season", JList(<<"winter">>)),
        Item("price", JDict(JNum(100), JNum(400)))>>),
      JObject(<<Item("price", JDict(JStr("cheap"), JNum(400)))>>) }

\* every field is filterable when the generator reads the file
RereadInit ==
    /\ \E g \in RereadGenerated : rel = NewRetrieval(<<"category", "season", "price">>, g)
    /\ run = Idle
    /\ run2 = Idle
    /\ AppIdle
    /\ SrvIdle

SpecReread == RereadInit /\ [][RereadNext]_vars

\* Each index query is sent and answered, and the request goes on
SpecRereadFair == SpecReread /\ WF_vars(RereadNext)

\* The call has returned or raised
RelEnded == rel.pc \in {"done", "raised"}

\* The number of index queries is at most n + 2, each asking for at most 20
\* results
QueriesBounded ==
    /\ Len(rel.queries) <= Len(rel.filter_on_list) + 2
    /\ \A k \in 1..Len(rel.queries) : rel.queries[k].limit <= 20
    /\ Cardinality({k \in 1..Len(rel.queries) : rel.queries[k].kind = "full"}) <= 1
    /\ Cardinality(RelaxSteps) <= Len(rel.filter_on_list)
    /\ Cardinality({k \in 1..Len(rel.queries) : rel.queries[k].kind = "fallback"}) <= 1

\* With an empty importance order and 5 to 9 results of the full filter,
\* these results are returned
EmptyOrderReturnsFull ==
    (/\ rel.pc = "done"
     /\ rel.filter_on_list = <<>>
     /\ Len(rel.queries) >= 1
     /\ rel.queries[1].kind = "full"
     /\ rel.queries[1].n \in 5..9)
        => (Len(rel.queries) = 1 /\ rel.returned = rel.queries[1])

\* C30: the retrieval always ends, after at most n + 2 index queries for an
\* importance order of n fields (one with the full filter, at most n
\* relaxation steps, at most one final unfiltered one), each asking for at
\* most 20 results; with an empty importance order and 5 to 9 results of
\* the full filter, these results are returned unchanged
C30_TerminatesWithinBounds ==
    /\ []QueriesBounded
    /\ []EmptyOrderReturnsFull
    /\ <>RelEnded

\* An importance order of three fields, and five queries: the full filter,
\* three relaxation steps and the final unfiltered search
C30_Witness ==
    /\ rel.pc = "done"
    /\ Len(rel.filter_on_list) = 3
    /\ Len(rel.queries) = 5
    /\ rel.queries[1].kind = "full"
    /\ rel.queries[5].kind = "fallback"
    /\ rel.returned = rel.queries[5]

\* The importance order was read empty and the full filter gave 9 results,
\* which were returned
C30_WitnessEmptyOrder ==
    /\ rel.pc = "done"
    /\ rel.filter_on_list = <<>>
    /\ Len(rel.queries) = 1
    /\ rel.queries[1].kind = "full" /\ rel.queries[1].n = 9
    /\ rel.returned = rel.queries[1]

====
